---- MODULE Spec2Model ----
(***************************************************************************)
(* A model of the file-drop service yorukot/sharing: the FileService       *)
(* (internal/services/file.go), the File model (internal/models/file.go),  *)
(* the storage backends and the public download handlers.                  *)
(*                                                                         *)
(* Strings are sequences of one-character strings, so that the string      *)
(* functions of the code (filepath.Ext, strings.TrimSuffix, fmt.Sprintf,   *)
(* the slug regular expression, URL escaping) are computed, not assumed.   *)
(***************************************************************************)
EXTENDS Integers, Sequences, FiniteSets, TLC

VARIABLES
    files,      \* the rows of table "files", in primary-key order (ID = index)
    blobs,      \* the storage backend: storage key -> stored bytes
    now,        \* the wall clock (time.Now())
    req,        \* per request goroutine: the handler it runs and its locals
    sweep,      \* the background cleanup goroutine of main.startCleanupJob
    faults,     \* I/O faults (storage or database errors) injected so far
    input,      \* the argument of the pure function under check
    output      \* its result

vars == <<files, blobs, now, req, sweep, faults, input, output>>

----------------------------------------------------------------------------
(* Strings *)

Rep(c, n) == [i \in 1..n |-> c]

LowerChars == {"a", "b", "d", "e", "f", "i", "l", "m", "o", "p", "r", "t", "y"}
UpperChars == {"M", "F"}
DigitChars == {"0", "1", "2", "4"}
\* a letter outside ASCII (\p{L}); UTF-8 encodes it in two bytes
UnicodeLetters == {"é"}

\* the bytes of one character in Go's UTF-8 string
CharBytes(c) == IF c \in UnicodeLetters THEN 2 ELSE 1

RECURSIVE ByteLen(_)
\* len(s) of a Go string: its length in bytes
ByteLen(s) == IF s = <<>> THEN 0 ELSE CharBytes(Head(s)) + ByteLen(Tail(s))

HasSuffix(s, suf) ==
    /\ Len(suf) <= Len(s)
    /\ SubSeq(s, Len(s) - Len(suf) + 1, Len(s)) = suf

\* strings.TrimSuffix
TrimSuffix(s, suf) ==
    IF HasSuffix(s, suf) THEN SubSeq(s, 1, Len(s) - Len(suf)) ELSE s

\* filepath.Ext: the suffix beginning at the final dot of the last path element
Ext(s) ==
    LET dots == {i \in 1..Len(s) :
                    /\ s[i] = "."
                    /\ \A j \in i..Len(s) : s[j] # "/"}
        last(S) == CHOOSE i \in S : \A j \in S : j <= i
    IN  IF dots = {} THEN <<>> ELSE SubSeq(s, last(dots), Len(s))

\* fmt.Sprintf("%s-%s%s", basename, infix, ext)
SprintfDash(basename, infix, ext) == basename \o <<"-">> \o infix \o ext

----------------------------------------------------------------------------
(* Slug validation: slugRegex, validateSlug *)

ErrInvalidSlug == "ErrInvalidSlug"
ErrSlugTaken == "ErrSlugTaken"
ErrFileNotFound == "ErrFileNotFound"
ErrFileExpired == "ErrFileExpired"
ErrInvalidPassword == "ErrInvalidPassword"
ErrPasswordRequired == "ErrPasswordRequired"
Nil == "nil"

\* the character class of slugRegex: [a-zA-Z0-9\p{L}\p{N}._-]
SlugRegexClass ==
    LowerChars \cup UpperChars \cup DigitChars \cup UnicodeLetters \cup {".", "_", "-"}

\* slugRegex.MatchString: ^[...]+$
slugRegexMatch(s) == Len(s) >= 1 /\ \A i \in 1..Len(s) : s[i] \in SlugRegexClass

validateSlug(slug) ==
    IF ByteLen(slug) < 1 \/ ByteLen(slug) > 100 THEN ErrInvalidSlug
    ELSE IF ~slugRegexMatch(slug) THEN ErrInvalidSlug
    ELSE Nil

----------------------------------------------------------------------------
(* URL escaping on the public path: net/url and the router *)

HexChars == {"0", "1", "2", "3", "4", "5", "6", "7", "8", "9",
             "A", "B", "C", "D", "E", "F", "a", "b", "c", "d", "e", "f"}

\* the percent-encoding of the characters that net/url may escape
PctOf(c) ==
    CASE c = " " -> <<"%", "2", "0">>
      [] c = "%" -> <<"%", "2", "5">>
      [] c = "+" -> <<"%", "2", "B">>
      [] c = "," -> <<"%", "2", "C">>
      [] c = "@" -> <<"%", "4", "0">>
      [] c = "é" -> <<"%", "C", "3", "%", "A", "9">>
      [] OTHER   -> <<c>>

\* url.shouldEscape(c, encodePathSegment) / (c, encodePath): letters, digits and
\* -_.~ are never escaped; of the reserved characters a path segment escapes
\* / ; , ? and a path escapes ? only; every other byte is escaped
shouldEscape(c, segment) ==
    IF c \in LowerChars \cup UpperChars \cup DigitChars \cup {"-", "_", ".", "~"} THEN FALSE
    ELSE IF c \in {"$", "&", "+", ":", "=", "@"} THEN FALSE
    ELSE IF c \in {";", ","} THEN segment
    ELSE TRUE

RECURSIVE escape(_, _)
escape(s, segment) ==
    IF s = <<>> THEN <<>>
    ELSE (IF shouldEscape(Head(s), segment) THEN PctOf(Head(s)) ELSE <<Head(s)>>)
         \o escape(Tail(s), segment)

\* url.PathEscape
PathEscape(s) == escape(s, TRUE)

\* the character a percent-encoded prefix of s stands for, and its length
PctPrefix(s) ==
    LET cands == {c \in {" ", "%", "+", ",", "@", "é"} :
                    /\ Len(PctOf(c)) <= Len(s)
                    /\ SubSeq(s, 1, Len(PctOf(c))) = PctOf(c)}
    IN  IF cands = {} THEN <<>> ELSE LET c == CHOOSE x \in cands : TRUE IN <<c, Len(PctOf(c))>>

\* url.unescape reports an error when a % is not followed by two hex digits
RECURSIVE validEscapes(_)
validEscapes(s) ==
    IF s = <<>> THEN TRUE
    ELSE IF Head(s) = "%"
         THEN /\ Len(s) >= 3
              /\ s[2] \in HexChars
              /\ s[3] \in HexChars
              /\ validEscapes(SubSeq(s, 4, Len(s)))
         ELSE validEscapes(Tail(s))

RECURSIVE unescape(_, _)
\* url.unescape: decodes %XX; in query mode also turns + into a space
unescape(s, query) ==
    IF s = <<>> THEN <<>>
    ELSE IF Head(s) = "%" /\ PctPrefix(s) # <<>>
         THEN <<PctPrefix(s)[1]>> \o unescape(SubSeq(s, PctPrefix(s)[2] + 1, Len(s)), query)
    ELSE IF Head(s) = "+" /\ query THEN <<" ">> \o unescape(Tail(s), query)
    ELSE <<Head(s)>> \o unescape(Tail(s), query)

\* url.QueryUnescape as DownloadByOriginalName uses it: on error the handler
\* keeps the encoded value
QueryUnescapeOrKeep(s) == IF validEscapes(s) THEN unescape(s, TRUE) ELSE s

\* net/http parses the request path (URL.Path is the decoded path, URL.RawPath
\* is kept only when the path is not in the default encoding) and chi routes
\* on RawPath when it is set: the value of chi.URLParam for a path segment
URLParam(segment) ==
    LET path == unescape(segment, FALSE)
    IN  IF escape(path, FALSE) = segment THEN path ELSE segment

\* the file name DownloadByOriginalName looks up when the client follows the
\* redirect that SharePage issues for originalName
RedirectedName(originalName) == QueryUnescapeOrKeep(URLParam(PathEscape(originalName)))

----------------------------------------------------------------------------
(* Bounds and inputs *)

MaxFiles == 2       \* rows ever inserted
MaxTime == 2        \* the clock runs 0..MaxTime
MaxFaults == 1      \* injected I/O faults per run
IdBytes == 3        \* random bytes of a generated file name
ProbeLen == 2       \* length of the enumerated slug candidates
MaxCalls == 4       \* calls made to a storage backend on its own

None == <<>>
Some(x) == <<x>>

Procs == {1, 2}

\* generateUniqueFilename: hex.EncodeToString of the random bytes (16 in the
\* code, IdBytes here), two hex digits a byte. Two of the values share their
\* first five digits.
RandomIDs == {Rep("0", 2 * IdBytes), Rep("0", 5) \o Rep("1", 2 * IdBytes - 5)}
\* hex.EncodeToString of 2 random bytes
RandomSuffixes == {Rep("0", 4)}

NameAP == <<"a", ".", "p">>
NameAPlusB == <<"a", "+", "b">>
SlugD == <<"d">>
SlugAt == <<"@">>
PwP == <<"p">>
PwQ == <<"q">>
\* a password of more than 72 bytes, which bcrypt refuses to hash
PwLong == Rep("p", 73)

\* an update request: the fields of UpdateRequest that are present
Upd(e, pw, sl) == [exp |-> e, pw |-> pw, slug |-> sl]

\* the inputs of one specification: who issues requests, with what, and how
\* many rows the uploads may insert
Inputs(procs, cap, names, slugs, pws, exps, tries, updates) ==
    [procs |-> procs, cap |-> cap, names |-> names, slugs |-> slugs, pws |-> pws,
     exps |-> exps, tries |-> tries, updates |-> updates]

\* expiry and the life cycle of a record
MainInputs ==
    Inputs({1}, MaxFiles, {NameAP}, {None}, {None}, {None, Some(1)}, {<<>>},
           {Upd(Some(2), None, None)})

\* the password gate
AccessInputs ==
    Inputs({1}, MaxFiles, {NameAP}, {None}, {None, Some(PwP)}, {None}, {<<>>, PwP, PwQ},
           {Upd(None, Some(<<>>), None), Upd(None, Some(PwQ), None), Upd(None, None, None)})

\* the slug engine and the failures of an upload
UploadInputs ==
    Inputs({1}, MaxFiles + 1, {NameAP, NameAPlusB}, {None, Some(SlugD), Some(SlugAt)},
           {None, Some(PwLong)}, {None}, {<<>>}, {})

\* a file name with an upper-case letter and a space
NameMY == <<"M", " ", "y", ".", "p">>

\* auto-generated slugs
DeriveInputs ==
    Inputs({1}, MaxFiles, {NameAP, NameMY}, {None}, {None}, {None}, {<<>>}, {})

\* auto-generation until the retries run out
ExhaustInputs ==
    Inputs({1}, MaxFiles + 1, {NameAP}, {None}, {None}, {None}, {<<>>}, {})

\* every shape of an update request
UpdateInputs ==
    Inputs({1}, MaxFiles, {NameAP}, {None}, {None, Some(PwP)}, {None, Some(1)}, {<<>>},
           {Upd(e, pw, sl) : e \in {None, Some(2)}, pw \in {None, Some(<<>>), Some(PwQ)},
                             sl \in {None, Some(<<>>), Some(SlugD), Some(SlugAt)}})

\* updates that move the expiry, also to an instant already past
PastInputs ==
    Inputs({1}, MaxFiles, {NameAP}, {None}, {None}, {None, Some(2)}, {<<>>},
           {Upd(Some(1), pw, sl) : pw \in {None, Some(PwQ)}, sl \in {None, Some(SlugD)}})

\* two clients on records that expire: an owner who uploads, updates and
\* deletes, and a reader who looks up
LapseOwner ==
    Inputs({1}, MaxFiles, {NameAP}, {None}, {None}, {Some(1)}, {<<>>},
           {Upd(Some(2), None, None)})
LapseReader ==
    Inputs({2}, MaxFiles, {NameAP}, {None}, {None}, {Some(1)}, {<<>>}, {})

\* the public path to records that expire and are swept
ResolveInputs ==
    Inputs({1}, MaxFiles, {NameAP}, {None}, {None, Some(PwP)}, {None, Some(1)},
           {<<>>, PwP, PwQ}, {})

\* custom slugs on records that expire, are deleted and are swept
ReuseInputs ==
    Inputs({1}, MaxFiles, {NameAP}, {None, Some(SlugD)}, {None}, {None, Some(1)}, {<<>>},
           {Upd(None, None, Some(SlugD))})

\* requests made while the cleanup job runs
JobInputs ==
    Inputs({1}, MaxFiles, {NameAP}, {None}, {None}, {Some(1)}, {<<>>}, {})

\* two requests at once
RaceInputs ==
    Inputs({1, 2}, MaxFiles, {NameAP}, {None, Some(SlugD)}, {None}, {None}, {<<>>},
           {Upd(None, None, Some(SlugD))})

----------------------------------------------------------------------------
(* models.File *)

\* a row of table "files"; CreatedAt is stamped by gorm when the row is
\* inserted; DeletedAt = 0 is SQL NULL, otherwise the ordinal of
\* the soft delete (gorm stamps time.Now() at nanosecond resolution, so two
\* soft deletes never carry the same stamp)
NewFile(id, filename, originalName, filePath, slug, passwordHash, expiresAt) ==
    [ID |-> id, CreatedAt |-> 0, DeletedAt |-> 0,
     Filename |-> filename, OriginalName |-> originalName, FilePath |-> filePath,
     Slug |-> slug, PasswordHash |-> passwordHash, ExpiresAt |-> expiresAt]

\* a slip in IsExpired: expired from the instant of expiry on
IsExpiredFromInstant(f, t) == IF f.ExpiresAt = None THEN FALSE ELSE t >= f.ExpiresAt[1]

\* File.IsExpired at time t: time.Now().After(*f.ExpiresAt)
IsExpired(f, t) == IF f.ExpiresAt = None THEN FALSE ELSE t > f.ExpiresAt[1]

\* File.HasPassword
HasPassword(f) == f.PasswordHash # None /\ f.PasswordHash[1] # <<>>

----------------------------------------------------------------------------
(* bcrypt, as an ideal salted one-way hash *)

\* bcrypt.GenerateFromPassword: an error for more than 72 bytes
bcryptFails(password) == ByteLen(password) > 72
bcryptHash(password) == <<"$2a$">> \o password
\* bcrypt.CompareHashAndPassword
bcryptMatches(hash, password) == hash = bcryptHash(password)

----------------------------------------------------------------------------
(* The record store: gorm over SQLite *)

\* a slip in the model of the store: soft-deleted rows are seen by the queries
LiveUnscoped(rows) == {i \in 1..Len(rows) : TRUE}

\* the rows a gorm query sees: soft-deleted rows are filtered out
Live(rows) == {i \in 1..Len(rows) : rows[i].DeletedAt = 0}

\* a slip in the queries: soft-deleted rows are matched too (gorm's Unscoped)
WhereUnscoped(rows, column, value) == {i \in 1..Len(rows) : rows[i][column] = value}

\* WHERE <column> = ? AND deleted_at IS NULL: the rows that match
Where(rows, column, value) == {i \in Live(rows) : rows[i][column] = value}

\* SELECT count(*) over the matching rows m
Count(m) == Cardinality(m)

\* ORDER BY id LIMIT 1 (gorm's First) over the matching rows m: 0 when no
\* row matches
First(m) == IF m = {} THEN 0 ELSE CHOOSE i \in m : \A j \in m : i <= j

\* the composite unique indexes idx_slug_deleted (deleted_at, slug) and
\* idx_filename_deleted (deleted_at, filename): SQLite treats NULLs as
\* distinct in a UNIQUE index, so a row whose deleted_at is NULL conflicts
\* with no row; two rows conflict when both carry the same non-NULL stamp
IndexConflict(rows, self, deletedAt, slug, filename) ==
    \E i \in 1..Len(rows) :
        /\ i # self
        /\ deletedAt # 0
        /\ rows[i].DeletedAt = deletedAt
        /\ (rows[i].Slug = slug \/ rows[i].Filename = filename)

\* the stamp of the next soft delete
NextStamp(rows) == Cardinality({i \in 1..Len(rows) : rows[i].DeletedAt # 0}) + 1

----------------------------------------------------------------------------
(* The storage backend (LocalStorage) *)

\* DATA_DIR, "./data" by default; filepath.Join cleans it to "data"
DataDir == <<"d", "a", "t", "a">>

\* filepath.Join(l.dataDir, filename)
LocalPath(filename) == DataDir \o <<"/">> \o filename

Put(b, k, d) == [x \in DOMAIN b \cup {k} |-> IF x = k THEN d ELSE b[x]]
Remove(b, k) == [x \in DOMAIN b \ {k} |-> b[x]]
NoBlobs == [x \in {} |-> 0]

----------------------------------------------------------------------------
(* Request goroutines *)

\* a request goroutine that runs no handler; the fields are the arguments and
\* the local variables of the service method
IdleReq ==
    [pc |-> "idle", op |-> "none",
     name |-> <<>>, slug |-> None, pw |-> None, exp |-> None, id |-> 0, data |-> <<>>,
     uniq |-> <<>>, path |-> <<>>, hash |-> None, oname |-> <<>>, i |-> 0,
     file |-> None, list |-> <<>>, err |-> Nil,
     saved |-> FALSE, cleaned |-> "no", created |-> 0,
     res |-> Nil, out |-> <<>>]

\* the handler returns: the locals go, the arguments and the outcome stay
Finish(r, result) ==
    [r EXCEPT !.pc = "done", !.res = result,
              !.uniq = <<>>, !.hash = None, !.oname = <<>>, !.i = 0, !.err = Nil]

\* a goroutine is free to serve the next request
Ready(p) == req[p].pc = "idle"

FaultAllowed == faults < MaxFaults

\* uploads that may still insert a row
UploadsInFlight == Cardinality({p \in Procs : req[p].op = "upload" /\ req[p].pc # "done"})

IsSet(opt) == opt # None /\ opt[1] # <<>>

\* the record SaveFile builds, lines 107-116
UploadRecord(r, id) ==
    NewFile(id, r.uniq, r.oname, r.path,
            IF IsSet(r.slug) THEN r.slug[1] ELSE r.oname, r.hash, r.exp)

\* a slip in SaveFile: an invalid custom slug returns without the clean-up
AfterSaveNoCleanup(r) ==
    IF IsSet(r.pw) /\ bcryptFails(r.pw[1])
    THEN [r EXCEPT !.pc = "cleanup", !.err = "HashError"]
    ELSE LET h == IF IsSet(r.pw) THEN Some(bcryptHash(r.pw[1])) ELSE None
         IN  IF IsSet(r.slug)
             THEN IF validateSlug(r.slug[1]) # Nil
                  THEN Finish(r, ErrInvalidSlug)
                  ELSE [r EXCEPT !.pc = "check_slug", !.hash = h]
             ELSE [r EXCEPT !.pc = "uniq_both", !.hash = h]

\* SaveFile lines 66-92, after the blob is saved: hash the password, validate a
\* custom slug; the next step is the uniqueness query or the clean-up
AfterSave(r) ==
    IF IsSet(r.pw) /\ bcryptFails(r.pw[1])
    THEN [r EXCEPT !.pc = "cleanup", !.err = "HashError"]
    ELSE LET h == IF IsSet(r.pw) THEN Some(bcryptHash(r.pw[1])) ELSE None
         IN  IF IsSet(r.slug)
             THEN IF validateSlug(r.slug[1]) # Nil
                  THEN [r EXCEPT !.pc = "cleanup", !.err = ErrInvalidSlug, !.hash = h]
                  ELSE [r EXCEPT !.pc = "check_slug", !.hash = h]
             ELSE [r EXCEPT !.pc = "uniq_both", !.hash = h]

\* SaveFile lines 46-64: generateUniqueFilename, then storage.Save
UploadArgs(p, In) ==
    {[IdleReq EXCEPT !.op = "upload", !.name = n, !.slug = sl, !.pw = pw, !.exp = e,
                     !.data = <<p, Len(files)>>,
                     !.uniq = rid \o Ext(n), !.path = LocalPath(rid \o Ext(n))] :
        n \in In.names, sl \in In.slugs, pw \in In.pws, e \in In.exps, rid \in RandomIDs}

\* a slip in SaveFile: the record is prepared before the bytes are stored
UploadSaveSkipsBlob(p, In) ==
    /\ p \in In.procs
    /\ Ready(p)
    /\ Len(files) + UploadsInFlight < In.cap
    /\ \E a \in UploadArgs(p, In) :
        /\ blobs' = blobs
        /\ req' = [req EXCEPT ![p] = AfterSave([a EXCEPT !.saved = TRUE])]
    /\ UNCHANGED <<files, now, sweep, faults, input, output>>

UploadSave(p, In) ==
    /\ p \in In.procs
    /\ Ready(p)
    /\ Len(files) + UploadsInFlight < In.cap
    /\ \E a \in UploadArgs(p, In) :
        /\ blobs' = Put(blobs, a.path, a.data)
        /\ req' = [req EXCEPT ![p] = AfterSave([a EXCEPT !.saved = TRUE])]
    /\ UNCHANGED <<files, now, sweep, faults, input, output>>

\* storage.Save returns an error: os.Create failed (nothing written), or
\* io.Copy failed and Save removed the file at that path
UploadSaveFails(p, In) ==
    /\ p \in In.procs
    /\ Ready(p)
    /\ Len(files) + UploadsInFlight < In.cap
    /\ FaultAllowed
    /\ \E a \in UploadArgs(p, In) :
        /\ blobs' \in {blobs, Remove(blobs, a.path)}
        /\ req' = [req EXCEPT ![p] = Finish(a, "IOError")]
    /\ faults' = faults + 1
    /\ UNCHANGED <<files, now, sweep, input, output>>

\* a slip in SaveFile: a taken custom slug is answered after the row went in
UploadCheckSlugInsertsFirst(p) ==
    /\ req[p].pc = "check_slug"
    /\ LET r == req[p]
           taken == Count(Where(files, "Slug", r.slug[1])) > 0
       IN  /\ req' = [req EXCEPT ![p] =
                    IF taken THEN [r EXCEPT !.pc = "cleanup", !.err = ErrSlugTaken]
                    ELSE [r EXCEPT !.pc = "uniq_name"]]
           /\ files' = IF taken THEN Append(files, UploadRecord(r, Len(files) + 1)) ELSE files
    /\ UNCHANGED <<blobs, now, sweep, faults, input, output>>

\* checkSlugUnique, SaveFile lines 88-92
UploadCheckSlug(p) ==
    /\ req[p].pc = "check_slug"
    /\ LET r == req[p]
           taken == Count(Where(files, "Slug", r.slug[1])) > 0
       IN  req' = [req EXCEPT ![p] =
                    IF taken THEN [r EXCEPT !.pc = "cleanup", !.err = ErrSlugTaken]
                    ELSE [r EXCEPT !.pc = "uniq_name"]]
    /\ UNCHANGED <<files, blobs, now, sweep, faults, input, output>>

\* makeOriginalNameUnique
makeOriginalNameUnique(rows, originalName, uniqueFilename) ==
    IF Count(Where(rows, "OriginalName", originalName)) = 0
    THEN originalName
    ELSE LET ext == Ext(originalName)
             basename == TrimSuffix(originalName, ext)
             hexFilename == TrimSuffix(uniqueFilename, Ext(uniqueFilename))
             prefix == IF Len(hexFilename) >= 5 THEN SubSeq(hexFilename, 1, 5)
                       ELSE hexFilename
         IN  SprintfDash(basename, prefix, ext)

UploadUniqName(p) ==
    /\ req[p].pc = "uniq_name"
    /\ req' = [req EXCEPT ![p].pc = "create",
                          ![p].oname = makeOriginalNameUnique(files, req[p].name, req[p].uniq)]
    /\ UNCHANGED <<files, blobs, now, sweep, faults, input, output>>

\* the query of makeFilenameAndSlugUnique: original_name = ? OR slug = ?
NameOrSlugTaken(rows, n) ==
    Count(Where(rows, "OriginalName", n) \cup Where(rows, "Slug", n)) > 0

\* makeFilenameAndSlugUnique lines 351-359: the first query
UploadUniqBoth(p) ==
    /\ req[p].pc = "uniq_both"
    /\ LET r == req[p]
       IN  req' = [req EXCEPT ![p] =
                    IF NameOrSlugTaken(files, r.name)
                    THEN [r EXCEPT !.pc = "retry", !.i = 0]
                    ELSE [r EXCEPT !.pc = "create", !.oname = r.name]]
    /\ UNCHANGED <<files, blobs, now, sweep, faults, input, output>>

\* a slip in makeFilenameAndSlugUnique: the loop never gives up
UploadRetryForever(p) ==
    /\ req[p].pc = "retry"
    /\ \E suffix \in RandomSuffixes :
        LET r == req[p]
            ext == Ext(r.name)
            uniqueName == SprintfDash(TrimSuffix(r.name, ext), suffix, ext)
        IN  req' = [req EXCEPT ![p] =
                     IF ~NameOrSlugTaken(files, uniqueName)
                     THEN [r EXCEPT !.pc = "create", !.oname = uniqueName]
                     ELSE [r EXCEPT !.i = (r.i + 1) % 100]]
    /\ UNCHANGED <<files, blobs, now, sweep, faults, input, output>>

\* makeFilenameAndSlugUnique lines 361-383: one turn of the retry loop
UploadRetry(p) ==
    /\ req[p].pc = "retry"
    /\ \E suffix \in RandomSuffixes :
        LET r == req[p]
            ext == Ext(r.name)
            uniqueName == SprintfDash(TrimSuffix(r.name, ext), suffix, ext)
        IN  req' = [req EXCEPT ![p] =
                     IF ~NameOrSlugTaken(files, uniqueName)
                     THEN [r EXCEPT !.pc = "create", !.oname = uniqueName]
                     ELSE IF r.i + 1 < 100
                     THEN [r EXCEPT !.i = r.i + 1]
                     ELSE [r EXCEPT !.pc = "cleanup", !.err = "GenerationFailed",
                                    !.i = r.i + 1]]
    /\ UNCHANGED <<files, blobs, now, sweep, faults, input, output>>

\* database.DB.Create, SaveFile lines 118-123
UploadCreate(p) ==
    /\ req[p].pc = "create"
    /\ LET r == req[p]
           row == [UploadRecord(r, Len(files) + 1) EXCEPT !.CreatedAt = now]
       IN  IF IndexConflict(files, 0, 0, row.Slug, row.Filename)
           THEN /\ req' = [req EXCEPT ![p] = [r EXCEPT !.pc = "cleanup", !.err = "DBError"]]
                /\ files' = files
           ELSE /\ files' = Append(files, row)
                /\ req' = [req EXCEPT ![p] = Finish([r EXCEPT !.created = row.ID], "ok")]
    /\ UNCHANGED <<blobs, now, sweep, faults, input, output>>

\* database.DB.Create returns an error (the database is locked, the disk full)
UploadCreateFails(p) ==
    /\ req[p].pc = "create"
    /\ FaultAllowed
    /\ req' = [req EXCEPT ![p].pc = "cleanup", ![p].err = "DBError"]
    /\ faults' = faults + 1
    /\ UNCHANGED <<files, blobs, now, sweep, input, output>>

\* s.storage.Delete(storagePath) // Clean up on error; the result is ignored
UploadCleanup(p) ==
    /\ req[p].pc = "cleanup"
    /\ blobs' = Remove(blobs, req[p].path)
    /\ req' = [req EXCEPT ![p] = Finish([req[p] EXCEPT !.cleaned = "ok"], req[p].err)]
    /\ UNCHANGED <<files, now, sweep, faults, input, output>>

UploadCleanupFails(p) ==
    /\ req[p].pc = "cleanup"
    /\ FaultAllowed
    /\ req' = [req EXCEPT ![p] = Finish([req[p] EXCEPT !.cleaned = "failed"], req[p].err)]
    /\ faults' = faults + 1
    /\ UNCHANGED <<files, blobs, now, sweep, input, output>>

----------------------------------------------------------------------------
(* Lookups: GetFile, GetFileBySlug, GetFileByOriginalName *)

\* the outcome of a lookup whose query matched row i (0: no row) at time t
LookupResult(rows, i, t) ==
    IF i = 0 THEN [err |-> ErrFileNotFound, file |-> None]
    ELSE IF IsExpired(rows[i], t) THEN [err |-> ErrFileExpired, file |-> None]
    ELSE [err |-> Nil, file |-> Some(rows[i])]

GetFile(rows, id, t) == LookupResult(rows, First(Where(rows, "ID", id)), t)
GetFileBySlug(rows, slug, t) == LookupResult(rows, First(Where(rows, "Slug", slug)), t)
GetFileByOriginalName(rows, name, t) ==
    LookupResult(rows, First(Where(rows, "OriginalName", name)), t)

\* the keys a client may ask for: those of the rows, and one of no row
KnownIDs == 1..(Len(files) + 1)
KnownSlugs(In) == {files[i].Slug : i \in 1..Len(files)} \cup {s[1] : s \in In.slugs \ {None}}
KnownNames(In) == {files[i].OriginalName : i \in 1..Len(files)} \cup In.names

\* APIHandler.GetFile: GetFile(id)
LookupByID(p, In) ==
    /\ p \in In.procs
    /\ Ready(p)
    /\ \E id \in KnownIDs :
        LET r == GetFile(files, id, now)
        IN  req' = [req EXCEPT ![p] =
                     Finish([IdleReq EXCEPT !.op = "get", !.id = id, !.file = r.file], r.err)]
    /\ UNCHANGED <<files, blobs, now, sweep, faults, input, output>>

\* GetFileBySlug(slug), as PublicHandler.SharePage calls it
LookupBySlug(p, In) ==
    /\ p \in In.procs
    /\ Ready(p)
    /\ \E sl \in KnownSlugs(In) :
        LET r == GetFileBySlug(files, sl, now)
        IN  req' = [req EXCEPT ![p] =
                     Finish([IdleReq EXCEPT !.op = "get_slug", !.slug = Some(sl),
                                            !.file = r.file], r.err)]
    /\ UNCHANGED <<files, blobs, now, sweep, faults, input, output>>

\* GetFileByOriginalName(name)
LookupByName(p, In) ==
    /\ p \in In.procs
    /\ Ready(p)
    /\ \E n \in KnownNames(In) :
        LET r == GetFileByOriginalName(files, n, now)
        IN  req' = [req EXCEPT ![p] =
                     Finish([IdleReq EXCEPT !.op = "get_name", !.name = n,
                                            !.file = r.file], r.err)]
    /\ UNCHANGED <<files, blobs, now, sweep, faults, input, output>>

\* a slip in ListFiles: the record that expires at this very instant is listed
ListFilesUntilInstant(rows, t) ==
    LET hit == {i \in Live(rows) : rows[i].ExpiresAt = None \/ rows[i].ExpiresAt[1] >= t}
        n == Cardinality(hit)
    IN  {[j \in 1..n |-> rows[o[j]]] :
            o \in {s \in [1..n -> hit] :
                    /\ \A j, k \in 1..n : j # k => s[j] # s[k]
                    /\ \A j, k \in 1..n : j < k => rows[s[j]].CreatedAt >= rows[s[k]].CreatedAt}}

\* ListFiles at time t: WHERE expires_at IS NULL OR expires_at > now (and
\* deleted_at IS NULL) ORDER BY created_at DESC; the results the query may
\* give, rows of equal created_at coming in any order
ListFiles(rows, t) ==
    LET hit == {i \in Live(rows) : rows[i].ExpiresAt = None \/ rows[i].ExpiresAt[1] > t}
        n == Cardinality(hit)
    IN  {[j \in 1..n |-> rows[o[j]]] :
            o \in {s \in [1..n -> hit] :
                    /\ \A j, k \in 1..n : j # k => s[j] # s[k]
                    /\ \A j, k \in 1..n : j < k => rows[s[j]].CreatedAt >= rows[s[k]].CreatedAt}}

\* APIHandler.ListFiles: ListFiles()
List(p, In) ==
    /\ p \in In.procs
    /\ Ready(p)
    /\ \E l \in ListFiles(files, now) :
        req' = [req EXCEPT ![p] = Finish([IdleReq EXCEPT !.op = "list", !.list = l], "ok")]
    /\ UNCHANGED <<files, blobs, now, sweep, faults, input, output>>

----------------------------------------------------------------------------
(* UpdateFile *)

\* UpdateFile lines 189-230 up to the uniqueness query: GetFile, then the
\* updates map is built
UpdateBegin(p, In) ==
    /\ p \in In.procs
    /\ Ready(p)
    /\ \E id \in KnownIDs, u \in In.updates :
        LET pw == u.pw
            sl == u.slug
            a == [IdleReq EXCEPT !.op = "update", !.id = id, !.exp = u.exp, !.pw = pw, !.slug = sl]
            g == GetFile(files, id, now)
        IN  req' = [req EXCEPT ![p] =
              IF g.err # Nil THEN Finish(a, g.err)
              ELSE IF IsSet(pw) /\ bcryptFails(pw[1]) THEN Finish(a, "HashError")
              ELSE LET b == [a EXCEPT !.file = g.file,
                                      !.hash = IF IsSet(pw) THEN Some(bcryptHash(pw[1]))
                                               ELSE None]
                   IN  IF IsSet(sl) /\ sl[1] # g.file[1].Slug
                       THEN IF validateSlug(sl[1]) # Nil THEN Finish(b, ErrInvalidSlug)
                            ELSE [b EXCEPT !.pc = "upd_check"]
                       ELSE [b EXCEPT !.pc = "upd_write"]]
    /\ UNCHANGED <<files, blobs, now, sweep, faults, input, output>>

\* UpdateFile lines 223-229: count of slug = ? AND id != ?
UpdateCheckSlug(p) ==
    /\ req[p].pc = "upd_check"
    /\ LET r == req[p]
           taken == Count(Where(files, "Slug", r.slug[1]) \ Where(files, "ID", r.id)) > 0
       IN  req' = [req EXCEPT ![p] =
                    IF taken THEN Finish(r, ErrSlugTaken)
                    ELSE [r EXCEPT !.pc = "upd_write", !.i = 1]]
    /\ UNCHANGED <<files, blobs, now, sweep, faults, input, output>>

\* a slip in UpdateFile: an empty password leaves the hash in place
ApplyUpdatesKeepsHash(f, r) ==
    [f EXCEPT !.ExpiresAt = IF r.exp # None THEN r.exp ELSE @,
              !.PasswordHash = IF r.pw = None \/ r.pw[1] = <<>> THEN @ ELSE r.hash,
              !.Slug = IF r.i = 1 THEN r.slug[1] ELSE @]

\* a slip in UpdateFile: the expiry is written whether supplied or not
ApplyUpdatesExpiryAlways(f, r) ==
    [f EXCEPT !.ExpiresAt = r.exp,
              !.PasswordHash = IF r.pw = None THEN @
                               ELSE IF r.pw[1] = <<>> THEN None ELSE r.hash,
              !.Slug = IF r.i = 1 THEN r.slug[1] ELSE @]

\* the row after the updates map is applied; i = 1 marks a slug in the map
ApplyUpdates(f, r) ==
    [f EXCEPT !.ExpiresAt = IF r.exp # None THEN r.exp ELSE @,
              !.PasswordHash = IF r.pw = None THEN @
                               ELSE IF r.pw[1] = <<>> THEN None ELSE r.hash,
              !.Slug = IF r.i = 1 THEN r.slug[1] ELSE @]

\* database.DB.Model(file).Updates(updates): UPDATE ... WHERE id = ? AND
\* deleted_at IS NULL
UpdateWrite(p) ==
    /\ req[p].pc = "upd_write"
    /\ LET r == req[p]
           live == r.id \in Live(files)
           row == ApplyUpdates(files[r.id], r)
       IN  IF live /\ IndexConflict(files, r.id, 0, row.Slug, row.Filename)
           THEN /\ req' = [req EXCEPT ![p] = Finish(r, "DBError")]
                /\ files' = files
           ELSE /\ files' = IF live THEN [files EXCEPT ![r.id] = row] ELSE files
                /\ req' = [req EXCEPT ![p].pc = "upd_reload"]
    /\ UNCHANGED <<blobs, now, sweep, faults, input, output>>

UpdateWriteFails(p) ==
    /\ req[p].pc = "upd_write"
    /\ FaultAllowed
    /\ req' = [req EXCEPT ![p] = Finish(req[p], "DBError")]
    /\ faults' = faults + 1
    /\ UNCHANGED <<files, blobs, now, sweep, input, output>>

\* UpdateFile line 237: return s.GetFile(id)
UpdateReload(p) ==
    /\ req[p].pc = "upd_reload"
    /\ LET g == GetFile(files, req[p].id, now)
       IN  req' = [req EXCEPT ![p] =
                    Finish([req[p] EXCEPT !.file = g.file], IF g.err = Nil THEN "ok" ELSE g.err)]
    /\ UNCHANGED <<files, blobs, now, sweep, faults, input, output>>

----------------------------------------------------------------------------
(* DeleteFile *)

\* gorm's soft delete: UPDATE files SET deleted_at = now WHERE id = ? AND
\* deleted_at IS NULL
SoftDelete(rows, id) ==
    IF id \in Live(rows) THEN [rows EXCEPT ![id].DeletedAt = NextStamp(rows)] ELSE rows

\* DeleteFile lines 242-245: GetFile
DeleteBegin(p, In) ==
    /\ p \in In.procs
    /\ Ready(p)
    /\ \E id \in KnownIDs :
        LET a == [IdleReq EXCEPT !.op = "delete", !.id = id]
            g == GetFile(files, id, now)
        IN  req' = [req EXCEPT ![p] =
              IF g.err # Nil THEN Finish(a, g.err)
              ELSE [a EXCEPT !.pc = "del_blob", !.file = g.file, !.path = g.file[1].FilePath]]
    /\ UNCHANGED <<files, blobs, now, sweep, faults, input, output>>

\* DeleteFile lines 247-250: s.storage.Delete(file.FilePath)
DeleteBlob(p) ==
    /\ req[p].pc = "del_blob"
    /\ blobs' = Remove(blobs, req[p].path)
    /\ req' = [req EXCEPT ![p].pc = "del_row"]
    /\ UNCHANGED <<files, now, sweep, faults, input, output>>

DeleteBlobFails(p) ==
    /\ req[p].pc = "del_blob"
    /\ FaultAllowed
    /\ req' = [req EXCEPT ![p] = Finish(req[p], "IOError")]
    /\ faults' = faults + 1
    /\ UNCHANGED <<files, blobs, now, sweep, input, output>>

\* DeleteFile lines 252-257: database.DB.Delete(file)
DeleteRow(p) ==
    /\ req[p].pc = "del_row"
    /\ LET r == req[p]
       IN  IF r.id \in Live(files)
              /\ IndexConflict(files, r.id, NextStamp(files), files[r.id].Slug, files[r.id].Filename)
           THEN /\ req' = [req EXCEPT ![p] = Finish(r, "DBError")]
                /\ files' = files
           ELSE /\ files' = SoftDelete(files, r.id)
                /\ req' = [req EXCEPT ![p] = Finish(r, "ok")]
    /\ UNCHANGED <<blobs, now, sweep, faults, input, output>>

DeleteRowFails(p) ==
    /\ req[p].pc = "del_row"
    /\ FaultAllowed
    /\ req' = [req EXCEPT ![p] = Finish(req[p], "DBError")]
    /\ faults' = faults + 1
    /\ UNCHANGED <<files, blobs, now, sweep, input, output>>

----------------------------------------------------------------------------
(* The public path: SharePage, DownloadByOriginalName *)

\* a slip in ValidatePassword: the hash is never compared
ValidatePasswordNoCompare(f, password) ==
    IF ~HasPassword(f) THEN Nil
    ELSE IF password = <<>> THEN ErrPasswordRequired
    ELSE Nil

\* ValidatePassword
ValidatePassword(f, password) ==
    IF ~HasPassword(f) THEN Nil
    ELSE IF password = <<>> THEN ErrPasswordRequired
    ELSE IF ~bcryptMatches(f.PasswordHash[1], password) THEN ErrInvalidPassword
    ELSE Nil

\* SharePage: GetFileBySlug; a password prompt or a redirect, both of which
\* send the client to /d/<original name>. The client types password try
\* into the prompt; the redirect carries no password.
SharePage(p, In) ==
    /\ p \in In.procs
    /\ Ready(p)
    /\ \E sl \in KnownSlugs(In), try \in In.tries :
        LET a == [IdleReq EXCEPT !.op = "resolve", !.slug = Some(sl)]
            g == GetFileBySlug(files, sl, now)
        IN  /\ g.err = Nil => (try = <<>> <=> ~HasPassword(g.file[1]))
            /\ g.err # Nil => try = <<>>
            /\ req' = [req EXCEPT ![p] =
                  IF g.err # Nil THEN Finish(a, g.err)
                  ELSE [a EXCEPT !.pc = "dl_lookup", !.id = g.file[1].ID, !.pw = Some(try),
                                 !.name = RedirectedName(g.file[1].OriginalName)]]
    /\ UNCHANGED <<files, blobs, now, sweep, faults, input, output>>

\* a client asks for /d/<name>?password=<try> directly
DownloadBegin(p, In) ==
    /\ p \in In.procs
    /\ Ready(p)
    /\ \E n \in KnownNames(In), try \in In.tries :
        req' = [req EXCEPT ![p] =
                 [IdleReq EXCEPT !.op = "download", !.pc = "dl_lookup", !.pw = Some(try),
                                 !.name = QueryUnescapeOrKeep(URLParam(PathEscape(n)))]]
    /\ UNCHANGED <<files, blobs, now, sweep, faults, input, output>>

\* a slip in DownloadByOriginalName: the password is checked before the expiry
DownloadLookupGateFirst(p) ==
    /\ req[p].pc = "dl_lookup"
    /\ LET r == req[p]
           i == First(Where(files, "OriginalName", r.name))
           g == GetFileByOriginalName(files, r.name, now)
           v == IF i = 0 THEN ErrFileNotFound
                ELSE IF ValidatePassword(files[i], r.pw[1]) # Nil
                THEN ValidatePassword(files[i], r.pw[1])
                ELSE g.err
       IN  req' = [req EXCEPT ![p] =
                    IF v # Nil THEN Finish([r EXCEPT !.file = g.file], v)
                    ELSE [r EXCEPT !.pc = "dl_read", !.file = g.file,
                                   !.path = g.file[1].FilePath]]
    /\ UNCHANGED <<files, blobs, now, sweep, faults, input, output>>

\* DownloadByOriginalName lines 623-651: GetFileByOriginalName, ValidatePassword
DownloadLookup(p) ==
    /\ req[p].pc = "dl_lookup"
    /\ LET r == req[p]
           g == GetFileByOriginalName(files, r.name, now)
           v == IF g.err = Nil THEN ValidatePassword(g.file[1], r.pw[1]) ELSE g.err
       IN  req' = [req EXCEPT ![p] =
                    IF v # Nil THEN Finish([r EXCEPT !.file = g.file], v)
                    ELSE [r EXCEPT !.pc = "dl_read", !.file = g.file,
                                   !.path = g.file[1].FilePath]]
    /\ UNCHANGED <<files, blobs, now, sweep, faults, input, output>>

\* a slip in DownloadByOriginalName: a missing blob is answered as a missing
\* record
DownloadReadAsNotFound(p) ==
    /\ req[p].pc = "dl_read"
    /\ LET r == req[p]
       IN  req' = [req EXCEPT ![p] =
                    IF r.path \in DOMAIN blobs
                    THEN Finish([r EXCEPT !.out = blobs[r.path]], "ok")
                    ELSE Finish(r, ErrFileNotFound)]
    /\ UNCHANGED <<files, blobs, now, sweep, faults, input, output>>

\* DownloadByOriginalName lines 658-671: GetFileReader and the copy of the
\* bytes to the response; a failed storage.Get is answered with status 500
DownloadRead(p) ==
    /\ req[p].pc = "dl_read"
    /\ LET r == req[p]
       IN  req' = [req EXCEPT ![p] =
                    IF r.path \in DOMAIN blobs
                    THEN Finish([r EXCEPT !.out = blobs[r.path]], "ok")
                    ELSE Finish(r, "ReadError")]
    /\ UNCHANGED <<files, blobs, now, sweep, faults, input, output>>

----------------------------------------------------------------------------
(* CleanupExpiredFiles, run by the goroutine of startCleanupJob *)

\* a slip in CleanupExpiredFiles: the record that expires at this very instant
\* is left for the next run
ExpiredFilesStrict(rows, t) ==
    LET hit(f) == f.DeletedAt = 0 /\ f.ExpiresAt # None /\ f.ExpiresAt[1] < t
        sel[i \in 0..Len(rows)] ==
            IF i = 0 THEN <<>>
            ELSE IF hit(rows[i]) THEN Append(sel[i - 1], rows[i]) ELSE sel[i - 1]
    IN  sel[Len(rows)]

\* WHERE expires_at IS NOT NULL AND expires_at <= now (and deleted_at IS NULL),
\* in primary-key order
ExpiredFiles(rows, t) ==
    LET hit(f) == f.DeletedAt = 0 /\ f.ExpiresAt # None /\ f.ExpiresAt[1] <= t
        sel[i \in 0..Len(rows)] ==
            IF i = 0 THEN <<>>
            ELSE IF hit(rows[i]) THEN Append(sel[i - 1], rows[i]) ELSE sel[i - 1]
    IN  sel[Len(rows)]

\* CleanupExpiredFiles lines 284-288: the query
SweepQuery ==
    /\ sweep.pc = "idle"
    /\ ExpiredFiles(files, now) # <<>>
    /\ sweep' = [pc |-> "blob", list |-> ExpiredFiles(files, now), k |-> 1]
    /\ UNCHANGED <<files, blobs, now, req, faults, input, output>>

\* lines 291-295: s.storage.Delete(file.FilePath); an error is logged
SweepBlob ==
    /\ sweep.pc = "blob"
    /\ blobs' = Remove(blobs, sweep.list[sweep.k].FilePath)
    /\ sweep' = [sweep EXCEPT !.pc = "row"]
    /\ UNCHANGED <<files, now, req, faults, input, output>>

\* a slip in CleanupExpiredFiles: a failed blob delete skips the record
SweepBlobFailsSkipsRow ==
    /\ sweep.pc = "blob"
    /\ FaultAllowed
    /\ sweep' = IF sweep.k < Len(sweep.list)
                THEN [sweep EXCEPT !.pc = "blob", !.k = @ + 1]
                ELSE [pc |-> "idle", list |-> <<>>, k |-> 0]
    /\ faults' = faults + 1
    /\ UNCHANGED <<files, blobs, now, req, input, output>>

SweepBlobFails ==
    /\ sweep.pc = "blob"
    /\ FaultAllowed
    /\ sweep' = [sweep EXCEPT !.pc = "row"]
    /\ faults' = faults + 1
    /\ UNCHANGED <<files, blobs, now, req, input, output>>

\* the loop goes to the next file, or the job ends
SweepAdvance == 
    IF sweep.k < Len(sweep.list) THEN [sweep EXCEPT !.pc = "blob", !.k = @ + 1] ELSE
    [pc |-> "idle", list |-> <<>>, k |-> 0]

\* lines 297-300: database.DB.Delete(&file); an error is logged
SweepRow ==
    /\ sweep.pc = "row"
    /\ files' = SoftDelete(files, sweep.list[sweep.k].ID)
    /\ sweep' = SweepAdvance
    /\ UNCHANGED <<blobs, now, req, faults, input, output>>

\* a slip in CleanupExpiredFiles: a failed record delete ends the sweep
SweepRowFailsAborts ==
    /\ sweep.pc = "row"
    /\ FaultAllowed
    /\ sweep' = [pc |-> "idle", list |-> <<>>, k |-> 0]
    /\ faults' = faults + 1
    /\ UNCHANGED <<files, blobs, now, req, input, output>>

SweepRowFails ==
    /\ sweep.pc = "row"
    /\ FaultAllowed
    /\ sweep' = SweepAdvance
    /\ faults' = faults + 1
    /\ UNCHANGED <<files, blobs, now, req, input, output>>

----------------------------------------------------------------------------

\* the status codes that the handlers write for the outcome of the service call

\* APIHandler.UploadFile
UploadFileStatus(res) ==
    IF res = "ok" THEN 201
    ELSE IF res = ErrSlugTaken THEN 409
    ELSE IF res = ErrInvalidSlug THEN 400
    ELSE 500

\* APIHandler.ListFiles
ListFilesStatus(res) == IF res = "ok" THEN 200 ELSE 500

\* APIHandler.GetFile
GetFileStatus(res) ==
    IF res = Nil THEN 200
    ELSE IF res = ErrFileNotFound THEN 404
    ELSE IF res = ErrFileExpired THEN 410
    ELSE 500

\* APIHandler.UpdateFile
UpdateFileStatus(res) ==
    IF res = "ok" THEN 200
    ELSE IF res = ErrFileNotFound THEN 404
    ELSE IF res = ErrFileExpired THEN 410
    ELSE IF res = ErrSlugTaken THEN 409
    ELSE IF res = ErrInvalidSlug THEN 400
    ELSE 500

\* APIHandler.DeleteFile
DeleteFileStatus(res) ==
    IF res = "ok" THEN 204
    ELSE IF res = ErrFileNotFound THEN 404
    ELSE 500

\* PublicHandler.SharePage and PublicHandler.DownloadByOriginalName
PublicStatus(res) ==
    IF res \in {"ok", Nil} THEN 200
    ELSE IF res = ErrFileNotFound THEN 404
    ELSE IF res = ErrFileExpired THEN 410
    ELSE IF res = ErrPasswordRequired THEN 401
    ELSE IF res = ErrInvalidPassword THEN 403
    ELSE 500

\* the status of the response to the finished request r
Status(r) ==
    CASE r.op = "upload" -> UploadFileStatus(r.res)
      [] r.op = "list" -> ListFilesStatus(r.res)
      [] r.op = "get" -> GetFileStatus(r.res)
      [] r.op = "update" -> UpdateFileStatus(r.res)
      [] r.op = "delete" -> DeleteFileStatus(r.res)
      [] OTHER -> PublicStatus(r.res)

\* the handler has written its response
Return(p) ==
    /\ req[p].pc = "done"
    /\ req' = [req EXCEPT ![p] = IdleReq]
    /\ UNCHANGED <<files, blobs, now, sweep, faults, input, output>>

Tick ==
    /\ now < MaxTime
    /\ now' = now + 1
    /\ UNCHANGED <<files, blobs, req, sweep, faults, input, output>>

----------------------------------------------------------------------------

IdleSweep == [pc |-> "idle", list |-> <<>>, k |-> 0]

Init ==
    /\ files = <<>>
    /\ blobs = NoBlobs
    /\ now = 0
    /\ req = [p \in Procs |-> IdleReq]
    /\ sweep = IdleSweep
    /\ faults = 0
    /\ input = <<>>
    /\ output = "unset"

Next ==
    \/ \E p \in Procs :
        \/ UploadSave(p, MainInputs)
        \/ UploadUniqBoth(p)
        \/ UploadRetry(p)
        \/ UploadCreate(p)
        \/ UploadCreateFails(p)
        \/ UploadCleanup(p)
        \/ LookupByID(p, MainInputs)
        \/ LookupBySlug(p, MainInputs)
        \/ LookupByName(p, MainInputs)
        \/ List(p, MainInputs)
        \/ UpdateBegin(p, MainInputs)
        \/ UpdateWrite(p)
        \/ UpdateReload(p)
        \/ DeleteBegin(p, MainInputs)
        \/ DeleteBlob(p)
        \/ DeleteBlobFails(p)
        \/ DeleteRow(p)
        \/ DeleteRowFails(p)
        \/ Return(p)
    \/ SweepQuery
    \/ SweepBlob
    \/ SweepBlobFails
    \/ SweepRow
    \/ SweepRowFails
    \/ Tick

\* expiry and the life cycle of a record: one client, the cleanup job, the
\* clock and I/O faults
Spec == Init /\ [][Next]_vars

\* two clients at once: uploads with and without a custom slug, and updates
\* of the slug
NextRace ==
    \E p \in Procs :
        \/ UploadSave(p, RaceInputs)
        \/ UploadCheckSlug(p)
        \/ UploadUniqName(p)
        \/ UploadUniqBoth(p)
        \/ UploadRetry(p)
        \/ UploadCreate(p)
        \/ UploadCleanup(p)
        \/ UpdateBegin(p, RaceInputs)
        \/ UpdateCheckSlug(p)
        \/ UpdateWrite(p)
        \/ UpdateReload(p)
        \/ Return(p)

SpecRace == Init /\ [][NextRace]_vars

\* the password gate: uploads with and without a password, updates of the
\* password, and the public path
NextAccess ==
    \E p \in Procs :
        \/ UploadSave(p, AccessInputs)
        \/ UploadUniqBoth(p)
        \/ UploadRetry(p)
        \/ UploadCreate(p)
        \/ UpdateBegin(p, AccessInputs)
        \/ UpdateWrite(p)
        \/ UpdateReload(p)
        \/ SharePage(p, AccessInputs)
        \/ DownloadBegin(p, AccessInputs)
        \/ DownloadLookup(p)
        \/ DownloadRead(p)
        \/ Return(p)

SpecAccess == Init /\ [][NextAccess]_vars

\* the slug engine: every path through SaveFile, its failures included, and
\* the public path to what was uploaded
NextUpload ==
    \E p \in Procs :
        \/ UploadSave(p, UploadInputs)
        \/ UploadSaveFails(p, UploadInputs)
        \/ UploadCheckSlug(p)
        \/ UploadUniqName(p)
        \/ UploadUniqBoth(p)
        \/ UploadRetry(p)
        \/ UploadCreate(p)
        \/ UploadCreateFails(p)
        \/ UploadCleanup(p)
        \/ UploadCleanupFails(p)
        \/ SharePage(p, UploadInputs)
        \/ DownloadLookup(p)
        \/ DownloadRead(p)
        \/ Return(p)

SpecUpload == Init /\ [][NextUpload]_vars

\* uploads without a custom slug
NextDerive ==
    \E p \in Procs :
        \/ UploadSave(p, DeriveInputs)
        \/ UploadUniqBoth(p)
        \/ UploadRetry(p)
        \/ UploadCreate(p)
        \/ LookupBySlug(p, DeriveInputs)
        \/ Return(p)

SpecDerive == Init /\ [][NextDerive]_vars

\* uploads of one file name without a custom slug, until the retry loop of
\* makeFilenameAndSlugUnique runs out
NextExhaust ==
    \E p \in Procs :
        \/ UploadSave(p, ExhaustInputs)
        \/ UploadUniqBoth(p)
        \/ UploadRetry(p)
        \/ UploadCreate(p)
        \/ UploadCleanup(p)
        \/ UploadCleanupFails(p)
        \/ Return(p)

\* a goroutine that is inside SaveFile keeps running
SpecExhaust ==
    /\ Init
    /\ [][NextExhaust]_vars
    /\ \A p \in Procs :
        /\ WF_vars(UploadUniqBoth(p))
        /\ WF_vars(UploadRetry(p))
        /\ WF_vars(UploadCreate(p))
        /\ WF_vars(UploadCleanup(p) \/ UploadCleanupFails(p))

\* uploads and updates of the expiry while the clock runs
NextPast ==
    \/ \E p \in Procs :
        \/ UploadSave(p, PastInputs)
        \/ UploadUniqBoth(p)
        \/ UploadRetry(p)
        \/ UploadCreate(p)
        \/ LookupByID(p, PastInputs)
        \/ UpdateBegin(p, PastInputs)
        \/ UpdateCheckSlug(p)
        \/ UpdateWrite(p)
        \/ UpdateReload(p)
        \/ Return(p)
    \/ Tick

SpecPast == Init /\ [][NextPast]_vars

\* an owner, a reader, the cleanup job and the clock
NextLapse ==
    \/ \E p \in Procs :
        \/ UploadSave(p, LapseOwner)
        \/ UploadUniqBoth(p)
        \/ UploadRetry(p)
        \/ UploadCreate(p)
        \/ LookupByID(p, LapseReader)
        \/ UpdateBegin(p, LapseOwner)
        \/ UpdateWrite(p)
        \/ UpdateReload(p)
        \/ DeleteBegin(p, LapseOwner)
        \/ DeleteBlob(p)
        \/ DeleteRow(p)
        \/ Return(p)
    \/ SweepQuery
    \/ SweepBlob
    \/ SweepRow
    \/ Tick

SpecLapse == Init /\ [][NextLapse]_vars

\* uploads, and updates of every shape
NextUpdate ==
    \E p \in Procs :
        \/ UploadSave(p, UpdateInputs)
        \/ UploadUniqBoth(p)
        \/ UploadRetry(p)
        \/ UploadCreate(p)
        \/ UpdateBegin(p, UpdateInputs)
        \/ UpdateCheckSlug(p)
        \/ UpdateWrite(p)
        \/ UpdateReload(p)
        \/ Return(p)

SpecUpdate == Init /\ [][NextUpdate]_vars

\* the public path, the clock and the cleanup job
NextResolve ==
    \/ \E p \in Procs :
        \/ UploadSave(p, ResolveInputs)
        \/ UploadUniqBoth(p)
        \/ UploadRetry(p)
        \/ UploadCreate(p)
        \/ SharePage(p, ResolveInputs)
        \/ DownloadBegin(p, ResolveInputs)
        \/ DownloadLookup(p)
        \/ DownloadRead(p)
        \/ Return(p)
    \/ SweepQuery
    \/ SweepBlob
    \/ SweepRow
    \/ Tick

SpecResolve == Init /\ [][NextResolve]_vars

\* custom slugs through the life of the records that hold them: uploads,
\* updates of the slug, deletes, the clock and the cleanup job
NextReuse ==
    \/ \E p \in Procs :
        \/ UploadSave(p, ReuseInputs)
        \/ UploadCheckSlug(p)
        \/ UploadUniqName(p)
        \/ UploadUniqBoth(p)
        \/ UploadRetry(p)
        \/ UploadCreate(p)
        \/ UploadCleanup(p)
        \/ UpdateBegin(p, ReuseInputs)
        \/ UpdateCheckSlug(p)
        \/ UpdateWrite(p)
        \/ UpdateReload(p)
        \/ DeleteBegin(p, ReuseInputs)
        \/ DeleteBlob(p)
        \/ DeleteRow(p)
        \/ Return(p)
    \/ SweepQuery
    \/ SweepBlob
    \/ SweepRow
    \/ Tick

SpecReuse == Init /\ [][NextReuse]_vars

----------------------------------------------------------------------------
(* startCleanupJob: the ticker and the goroutine that runs the cleanup.      *)
(* input is the goroutine (pc), the channel of the ticker (tick: the number *)
(* of ticks it holds, at most one) and the number of calls of               *)
(* CleanupExpiredFiles that have begun and not returned (runs).             *)

InitJob ==
    /\ files = <<>>
    /\ blobs = NoBlobs
    /\ now = 0
    /\ req = [p \in Procs |-> IdleReq]
    /\ sweep = IdleSweep
    /\ faults = 0
    /\ input = [pc |-> "initial", tick |-> 0, runs |-> 0]
    /\ output = "unset"

\* time.NewTicker(1 * time.Hour): an hour passes and the ticker sends on its
\* channel, which holds one tick; a tick that finds the channel full is
\* dropped
TickerFire ==
    /\ now < MaxTime
    /\ now' = now + 1
    /\ input' = [input EXCEPT !.tick = 1]
    /\ UNCHANGED <<files, blobs, req, sweep, faults, output>>

\* a slip in startCleanupJob: every tick starts a run in a goroutine of its own
JobRunSpawns ==
    /\ input.pc = "initial" \/ input.tick = 1
    /\ input' = [pc |-> "query", tick |-> 0, runs |-> input.runs + 1]
    /\ UNCHANGED <<files, blobs, now, req, sweep, faults, output>>

\* the goroutine calls CleanupExpiredFiles: at once on startup, then once for
\* each tick it receives from the channel (for range ticker.C)
JobRun ==
    /\ input.pc = "initial" \/ (input.pc = "wait" /\ input.tick = 1)
    /\ input' = [pc |-> "query", tick |-> IF input.pc = "wait" THEN 0 ELSE input.tick,
                 runs |-> input.runs + 1]
    /\ UNCHANGED <<files, blobs, now, req, sweep, faults, output>>

\* CleanupExpiredFiles lines 284-288: the query; the loop runs over what it
\* found, which may be nothing
JobQuery ==
    /\ input.pc = "query"
    /\ sweep' = IF ExpiredFiles(files, now) = <<>> THEN IdleSweep
                ELSE [pc |-> "blob", list |-> ExpiredFiles(files, now), k |-> 1]
    /\ input' = [input EXCEPT !.pc = "loop"]
    /\ UNCHANGED <<files, blobs, now, req, faults, output>>

\* CleanupExpiredFiles returns nil and the goroutine logs "Cleanup completed"
JobReturn ==
    /\ input.pc = "loop"
    /\ sweep.pc = "idle"
    /\ input' = [input EXCEPT !.pc = "wait", !.runs = @ - 1]
    /\ UNCHANGED <<files, blobs, now, req, sweep, faults, output>>

NextJob ==
    \/ \E p \in Procs :
        \/ UploadSave(p, JobInputs)
        \/ UploadUniqBoth(p)
        \/ UploadRetry(p)
        \/ UploadCreate(p)
        \/ LookupByID(p, JobInputs)
        \/ Return(p)
    \/ TickerFire
    \/ JobRun
    \/ JobQuery
    \/ SweepBlob
    \/ SweepRow
    \/ JobReturn

\* the cleanup job next to a client's requests
SpecJob == InitJob /\ [][NextJob]_vars

\* C31: at most one call of CleanupExpiredFiles is in progress at any time:
\* the initial run and the runs started by the ticker are made one after
\* another by one goroutine, and a run is in progress exactly while that
\* goroutine is inside it.
C31_OneSweepAtATime ==
    /\ input.runs <= 1
    /\ input.runs = 1 <=> input.pc \in {"query", "loop"}
    /\ sweep.pc # "idle" => input.pc = "loop"

\* a run started by the ticker is in the middle of its loop while a request
\* is in the middle of an upload and the next tick is waiting in the channel
C31_Witness ==
    /\ input.runs = 1
    /\ input.tick = 1
    /\ sweep.pc = "row"
    /\ now = MaxTime
    /\ \E p \in Procs : req[p].op = "upload" /\ req[p].pc = "create"

----------------------------------------------------------------------------
(* Claims on expiry and the life cycle, under Spec *)

LookupOps == {"get", "get_slug", "get_name"}

\* the live rows that the lookup request r asks for
Matching(rows, r) ==
    {i \in Live(rows) :
        CASE r.op = "get" -> rows[i].ID = r.id
          [] r.op = "get_slug" -> rows[i].Slug = r.slug[1]
          [] r.op = "get_name" -> rows[i].OriginalName = r.name
          [] OTHER -> FALSE}

PastExpiry(f, t) == f.ExpiresAt # None /\ t > f.ExpiresAt[1]

\* C4: Get(id), GetBySlug(slug) and GetByDisplayName(name) answer NotFound
\* exactly when no non-deleted record matches, Expired for a matching record
\* with now > expiresAt, and the record itself when expiresAt is null or
\* now <= expiresAt.
C4_LookupOutcome ==
    [][\A p \in Procs :
        (req[p].pc = "idle" /\ req'[p].pc = "done" /\ req'[p].op \in LookupOps) =>
            LET r == req'[p]
                m == Matching(files, r)
            IN  /\ r.res = ErrFileNotFound <=> m = {}
                /\ \A i \in m :
                    /\ PastExpiry(files[i], now) => r.res = ErrFileExpired /\ r.file = None
                    /\ ~PastExpiry(files[i], now) => r.res = Nil /\ r.file = Some(files[i])]_vars

\* a lookup by name has answered Expired for a record that is not deleted,
\* and a lookup by ID has returned a record at the instant of its expiry
C4_Witness ==
    \E p \in Procs :
        /\ req[p].pc = "done"
        /\ \/ /\ req[p].op = "get_name"
              /\ req[p].res = ErrFileExpired
              /\ Matching(files, req[p]) # {}
           \/ /\ req[p].op = "get"
              /\ req[p].res = Nil
              /\ req[p].file[1].ExpiresAt = Some(now)

\* C6: every record that is neither deleted nor expired has its blob in the
\* storage backend, in every state, those in the middle of a request included.
C6_LiveRecordHasBlob ==
    \A i \in Live(files) :
        ~IsExpired(files[i], now) => files[i].FilePath \in DOMAIN blobs

\* C18: Delete(id) returns ok or NotFound, whatever the state of the record
\* (an error of the storage or of the database set aside); when it returns
\* ok the record is soft-deleted and its blob is gone.
C18_DeleteOutcome ==
    \A p \in Procs :
        (req[p].pc = "done" /\ req[p].op = "delete") =>
            /\ req[p].res \in {"ok", ErrFileNotFound, "IOError", "DBError"}
            /\ req[p].res = "ok" =>
                /\ req[p].id \in 1..Len(files)
                /\ req[p].id \notin Live(files)
                /\ req[p].path \notin DOMAIN blobs

\* C20: a failure to delete the blob or to soft-delete the record of one
\* expired record does not end the sweep: it goes through every record it
\* selected, in order, attempts the blob delete and then the soft delete of
\* each, and ends only after the last one.
C20_SweepIsolation ==
    [][sweep' # sweep =>
        CASE sweep.pc = "idle" ->
                sweep'.pc = "blob" /\ sweep'.k = 1 /\ sweep'.list = ExpiredFiles(files, now)
          [] sweep.pc = "blob" ->
                /\ sweep' = [sweep EXCEPT !.pc = "row"]
                /\ faults' = faults => sweep.list[sweep.k].FilePath \notin DOMAIN blobs'
          [] sweep.pc = "row" ->
                /\ faults' = faults => sweep.list[sweep.k].ID \notin Live(files')
                /\ IF sweep.k < Len(sweep.list)
                   THEN sweep' = [sweep EXCEPT !.pc = "blob", !.k = sweep.k + 1]
                   ELSE sweep'.pc = "idle"]_vars

\* the sweep is at its second record after the soft delete of the first one
\* failed
C20_Witness ==
    /\ sweep.pc = "blob"
    /\ sweep.k = 2
    /\ sweep.list[1].ID \in Live(files)
    /\ faults = 1

\* C22: ListFiles returns exactly the non-deleted records whose expiresAt is
\* null or strictly after the time of the call, each once and as it is
\* stored, ordered by createdAt descending; deleted and expired records are
\* not in it.
C22_ListExact ==
    [][\A p \in Procs :
        (req[p].pc = "idle" /\ req'[p].pc = "done" /\ req'[p].op = "list") =>
            LET l == req'[p].list
            IN  /\ req'[p].res = "ok"
                /\ {l[j].ID : j \in 1..Len(l)} =
                      {i \in 1..Len(files) :
                          /\ files[i].DeletedAt = 0
                          /\ files[i].ExpiresAt # None => files[i].ExpiresAt[1] > now}
                /\ \A j, k \in 1..Len(l) : j # k => l[j].ID # l[k].ID
                /\ \A j \in 1..Len(l) : l[j] = files[l[j].ID]
                /\ \A j, k \in 1..Len(l) : j < k => l[j].CreatedAt >= l[k].CreatedAt]_vars

\* a list has come back without the record that expires at the instant of the
\* call and without a deleted one
C22_Witness ==
    \E p \in Procs :
        /\ req[p].pc = "done"
        /\ req[p].op = "list"
        /\ req[p].list = <<>>
        /\ \E i \in Live(files) : files[i].ExpiresAt = Some(now)
        /\ \E i \in 1..Len(files) : files[i].DeletedAt # 0

\* the soft-deleted records
Tombstones == {i \in 1..Len(files) : files[i].DeletedAt # 0}

\* C25: a soft-deleted record stays in the table, deleted and unchanged, and no
\* query sees it: GetFile, UpdateFile and DeleteFile called with its id
\* return NotFound, a lookup by slug or by original name never returns it and
\* returns NotFound when no non-deleted record holds the value, and ListFiles
\* never contains it.
C25_TombstoneExcluded ==
    [][/\ Len(files') >= Len(files)
       /\ \A i \in Tombstones : files'[i] = files[i]
       /\ \A i \in 1..Len(files') : files'[i].ID = i
       /\ \A p \in Procs :
            LET n == req'[p]
            IN  (req[p].pc = "idle" /\ n.pc # "idle") =>
                  /\ (n.op \in {"get", "update", "delete"} /\ n.id \in Tombstones) =>
                        (n.pc = "done" /\ n.res = ErrFileNotFound)
                  /\ n.file # None => n.file[1].ID \notin Tombstones
                  /\ (n.op = "get_slug"
                        /\ \A i \in 1..Len(files) :
                              files[i].Slug = n.slug[1] => i \in Tombstones) =>
                        n.res = ErrFileNotFound
                  /\ (n.op = "get_name"
                        /\ \A i \in 1..Len(files) :
                              files[i].OriginalName = n.name => i \in Tombstones) =>
                        n.res = ErrFileNotFound
                  /\ \A j \in 1..Len(n.list) : n.list[j].ID \notin Tombstones]_vars

\* DeleteFile has answered NotFound for the id of a record that was
\* soft-deleted before
C25_Witness ==
    \E p \in Procs :
        /\ req[p].pc = "done"
        /\ req[p].op = "delete"
        /\ req[p].res = ErrFileNotFound
        /\ req[p].id \in Tombstones

\* DeleteFile of request p has done its first step and not its second: the
\* process may stop here (a crash), or the record delete has failed
DeleteInterrupted(p) ==
    /\ req[p].op = "delete"
    /\ \/ req[p].pc = "del_row"
       \/ req[p].pc = "done" /\ req[p].res = "DBError"

\* C27: when DeleteFile is interrupted between its two steps, the record it
\* was deleting is not a non-deleted record whose blob is missing.
C27_InterruptedDelete ==
    \A p \in Procs :
        DeleteInterrupted(p) =>
            ~(req[p].id \in Live(files) /\ files[req[p].id].FilePath \notin DOMAIN blobs)

\* C32: every outcome of the service has one status at the API: NotFound 404,
\* Expired 410, PasswordRequired 401, PasswordInvalid 403, AlreadyTaken 409,
\* InvalidFormat 400, and generation exhaustion, storage and database errors
\* and a missing blob 500, whichever handler answers.
C32_StatusOfOutcome ==
    \A p \in Procs :
        req[p].pc = "done" =>
            LET res == req[p].res
                s == Status(req[p])
            IN  /\ res = ErrFileNotFound => s = 404
                /\ res = ErrFileExpired => s = 410
                /\ res = ErrPasswordRequired => s = 401
                /\ res = ErrInvalidPassword => s = 403
                /\ res = ErrSlugTaken => s = 409
                /\ res = ErrInvalidSlug => s = 400
                /\ res \in {"GenerationFailed", "IOError", "DBError", "ReadError"} => s = 500

\* the non-deleted records whose expiry is at or before t
DueAt(rows, t) ==
    {i \in Live(rows) : rows[i].ExpiresAt # None /\ rows[i].ExpiresAt[1] <= t}

----------------------------------------------------------------------------
(* Claims on slugs under concurrency, under SpecRace *)

\* C1: no two non-deleted records hold the same slug, whatever the
\* interleaving of uploads and updates.
C1_SlugUnique ==
    \A i \in Live(files), j \in Live(files) : i # j => files[i].Slug # files[j].Slug

\* both clients have finished an upload with the same custom slug, and that
\* slug was free before them
SameSlugRace ==
    /\ \A p \in Procs : req[p].pc = "done" /\ req[p].op = "upload" /\ req[p].slug = Some(SlugD)
    /\ \A i \in Live(files) : files[i].Slug = SlugD => \E p \in Procs : req[p].created = i

\* C2: of two uploads that ask for the same free custom slug, exactly one
\* succeeds and the other returns ErrSlugTaken.
C2_OneWinner ==
    SameSlugRace =>
        \E p \in Procs, q \in Procs :
            p # q /\ req[p].res = "ok" /\ req[q].res = ErrSlugTaken

\* C14: no two non-deleted records share a display name (OriginalName),
\* whatever the interleaving of uploads and the random values.
C14_OriginalNameUnique ==
    \A i \in Live(files), j \in Live(files) :
        i # j => files[i].OriginalName # files[j].OriginalName

\* the live records other than id that hold slug
OtherHolders(id, slug) == {j \in Live(files) \ {id} : files[j].Slug = slug}

\* C17: an update to a new slug answers InvalidFormat for a malformed slug
\* and AlreadyTaken when another non-deleted record holds it, also when that
\* record took it between the check and the write; it never writes a slug
\* that another record holds, and it accepts the record's own slug.
C17_UpdateSlugChecked ==
    [][\A p \in Procs :
        LET r == req[p]
            n == req'[p]
        IN  /\ (r.pc = "idle" /\ n.op = "update" /\ n.id \in Live(files)
                    /\ ~IsExpired(files[n.id], now) /\ IsSet(n.slug)) =>
                /\ n.slug[1] = files[n.id].Slug => n.pc = "upd_write"
                /\ (n.slug[1] # files[n.id].Slug /\ validateSlug(n.slug[1]) # Nil) =>
                        n.pc = "done" /\ n.res = ErrInvalidSlug
            /\ (r.pc = "upd_check" /\ n # r /\ OtherHolders(r.id, r.slug[1]) # {}) =>
                    n.pc = "done" /\ n.res = ErrSlugTaken
            /\ (r.pc = "upd_write" /\ n.pc = "upd_reload" /\ r.i = 1) =>
                    OtherHolders(r.id, r.slug[1]) = {}]_vars

----------------------------------------------------------------------------
(* Claims on the password gate, under SpecAccess *)

Passwords == {PwP, PwQ}

\* the password the hash of f was made from
PasswordOf(f) == CHOOSE pw \in Passwords : bcryptHash(pw) = f.PasswordHash[1]

\* the live, unexpired records named n that carry a password hash
Protected(n) ==
    {i \in Live(files) :
        /\ files[i].OriginalName = n
        /\ ~PastExpiry(files[i], now)
        /\ files[i].PasswordHash # None}

Tries == Passwords \cup {<<>>}

\* the live, unexpired records named n that carry no password hash
Unprotected(n) ==
    {i \in Live(files) :
        /\ files[i].OriginalName = n
        /\ ~PastExpiry(files[i], now)
        /\ files[i].PasswordHash = None}

----------------------------------------------------------------------------
(* Claims on the public path to expiring records, under SpecResolve *)

\* the records, deleted ones included, that carry the identifier which the
\* step of request p looks up: the slug in SharePage, the name in
\* DownloadByOriginalName
Named(p) ==
    {i \in 1..Len(files) :
        IF req[p].pc = "idle" THEN files[i].Slug = req'[p].slug[1]
        ELSE files[i].OriginalName = req[p].name}

\* request p makes a lookup step of the public path
ResolveLookup(p) ==
    \/ req[p].pc = "idle" /\ req'[p].op = "resolve"
    \/ req[p].pc = "dl_lookup" /\ req'[p].pc # "dl_lookup"

\* C23: once the expiry of a record has elapsed, every resolve attempt of its
\* slug or name is answered Expired, with any password or none, whether or
\* not the cleanup job has run since.
C23_ExpiredForever ==
    [][\A p \in Procs :
        (ResolveLookup(p) /\ \E i \in Named(p) : IsExpired(files[i], now)) =>
            req'[p].pc = "done" /\ req'[p].res = ErrFileExpired]_vars

----------------------------------------------------------------------------
(* Claims on the reuse of slugs and names, under SpecReuse *)

\* the non-deleted records other than self that hold the value in the column,
\* expired ones included
Holders(column, value, self) ==
    {i \in 1..Len(files) : i # self /\ files[i].DeletedAt = 0 /\ files[i][column] = value}

\* C24: the slug, display name and stored name of a soft-deleted record are
\* free: the uniqueness checks of an upload and of an update answer
\* AlreadyTaken exactly when a non-deleted record, expired or not, holds the
\* value, never because of a soft-deleted one, and an upload or update that
\* has passed them is written.
C24_DeletedFreesSlug ==
    [][\A p \in Procs :
        LET r == req[p]
            n == req'[p]
        IN  /\ (r.pc = "check_slug" /\ n # r) =>
                IF Holders("Slug", r.slug[1], 0) # {}
                THEN n.pc = "cleanup" /\ n.err = ErrSlugTaken
                ELSE n.pc = "uniq_name"
            /\ (r.pc = "uniq_name" /\ n # r) =>
                (Holders("OriginalName", r.name, 0) = {} => n.oname = r.name)
            /\ (r.pc = "uniq_both" /\ n # r) =>
                ((Holders("OriginalName", r.name, 0) \cup Holders("Slug", r.name, 0) = {})
                    => (n.pc = "create" /\ n.oname = r.name))
            /\ (r.pc = "create" /\ n # r) =>
                /\ n.pc = "done" /\ n.res = "ok"
                /\ files' = Append(files, files'[Len(files')])
                /\ files'[Len(files')].Slug = (IF IsSet(r.slug) THEN r.slug[1] ELSE r.oname)
                /\ files'[Len(files')].Filename = r.uniq
            /\ (r.pc = "upd_check" /\ n # r) =>
                IF Holders("Slug", r.slug[1], r.id) # {}
                THEN n.pc = "done" /\ n.res = ErrSlugTaken
                ELSE n.pc = "upd_write"
            /\ (r.pc = "upd_write" /\ n # r /\ r.id \in Live(files)) =>
                n.pc = "upd_reload" /\ (r.i = 1 => files'[r.id].Slug = r.slug[1])]_vars

\* a slug held by a soft-deleted record is held again by a non-deleted one
\* that an upload created after the deletion
C24_Witness ==
    \E i, j \in 1..Len(files) :
        /\ i < j
        /\ files[i].DeletedAt # 0
        /\ files[j].DeletedAt = 0
        /\ files[i].Slug = SlugD
        /\ files[j].Slug = SlugD
        /\ files[i].OriginalName = files[j].OriginalName

\* the non-deleted record that the lookup step of request p finds: the first
\* one that carries the identifier, 0 when there is none
Found(p) ==
    LET m == {i \in Named(p) : files[i].DeletedAt = 0}
    IN  IF m = {} THEN 0 ELSE CHOOSE i \in m : \A j \in m : i <= j

\* C29: the public path looks the record up before it looks at the password:
\* an identifier of no record or of a deleted one is answered NotFound and an
\* expired record Expired, whatever password is supplied and whether or not
\* the record is protected; for a record without a password hash the
\* download goes on to the bytes whatever password is supplied.
C29_LookupBeforeGate ==
    [][\A p \in Procs :
        ResolveLookup(p) =>
            LET i == Found(p)
                n == req'[p]
            IN  /\ i = 0 => (n.pc = "done" /\ n.res = ErrFileNotFound)
                /\ (i # 0 /\ files[i].ExpiresAt # None /\ now > files[i].ExpiresAt[1]) =>
                      (n.pc = "done" /\ n.res = ErrFileExpired)
                /\ (i # 0 /\ files[i].PasswordHash = None
                          /\ (files[i].ExpiresAt = None \/ now <= files[i].ExpiresAt[1])) =>
                      IF req[p].pc = "dl_lookup"
                      THEN n.pc = "dl_read" /\ n.path = files[i].FilePath
                      ELSE n.pc = "dl_lookup"]_vars

\* a download of a protected record past its expiry, asked for with a wrong
\* password, has been answered Expired
C29_Witness ==
    \E p \in Procs :
        /\ req[p].pc = "done"
        /\ req[p].op = "download"
        /\ req[p].res = ErrFileExpired
        /\ req[p].pw = Some(PwQ)
        /\ \E i \in Live(files) :
            /\ files[i].OriginalName = req[p].name
            /\ HasPassword(files[i])
            /\ IsExpired(files[i], now)

\* C30: when the lookup and the password check have passed and the storage
\* backend has no blob under the path of the record, the download is answered
\* with a read error (status 500), which is not the NotFound answer of an
\* unknown identifier and carries no bytes; NotFound is only ever answered by
\* the lookup.
C30_MissingBlobIsInternal ==
    [][\A p \in Procs :
        LET r == req[p]
            n == req'[p]
        IN  /\ (r.pc = "dl_read" /\ n # r /\ r.path \notin DOMAIN blobs) =>
                /\ n.pc = "done"
                /\ n.res = "ReadError"
                /\ n.res # ErrFileNotFound
                /\ n.out = <<>>
            /\ (n # r /\ n.pc = "done" /\ n.op \in {"resolve", "download"}
                      /\ n.res = ErrFileNotFound) =>
                (r.pc \in {"idle", "dl_lookup"} /\ n.file = None)]_vars

\* a download that had found its record has been answered with the read
\* error: the cleanup job removed the blob in between
C30_Witness ==
    \E p \in Procs :
        /\ req[p].pc = "done"
        /\ req[p].op \in {"resolve", "download"}
        /\ req[p].res = "ReadError"
        /\ req[p].file # None
        /\ req[p].path \notin DOMAIN blobs

----------------------------------------------------------------------------
(* Claims on uploads and the slug engine, under SpecUpload *)

\* the bytes that row id holds when one client uploads: UploadArgs tags the
\* bytes with the client and the number of rows at the start of the upload
UploadedBytes(id) == <<1, id - 1>>

\* C5: resolving the slug of an uploaded, live record through the share page
\* and the download yields the bytes of that upload.
C5_RoundTrip ==
    \A p \in Procs :
        (req[p].pc = "done" /\ req[p].op = "resolve" /\ req[p].id # 0) =>
            req[p].res = "ok" /\ req[p].out = UploadedBytes(req[p].id)

\* an upload that has returned an error after storage.Save succeeded
FailedAfterSave(r) == r.pc = "done" /\ r.op = "upload" /\ r.saved /\ r.res # "ok"

\* no row was inserted since the upload r began
NoRecordOf(r) == Len(files) = r.data[2]

\* C7 as stated: when an upload fails after storage.Save succeeded, its
\* blob is gone from storage when the error is returned and no record of the
\* upload exists.
C7_BlobDeleted ==
    \A p \in Procs :
        FailedAfterSave(req[p]) => req[p].path \notin DOMAIN blobs /\ NoRecordOf(req[p])

\* C7: when an upload fails after storage.Save succeeded, it has called
\* storage.Delete on its blob before the error is returned, the blob is gone
\* unless that call failed, and no record of the upload exists.
C7_CleanupAttempted ==
    \A p \in Procs :
        FailedAfterSave(req[p]) =>
            /\ req[p].cleaned # "no"
            /\ req[p].cleaned = "ok" => req[p].path \notin DOMAIN blobs
            /\ NoRecordOf(req[p])

\* an upload has failed on a taken slug and its blob is deleted
C7_Witness ==
    \E p \in Procs :
        /\ FailedAfterSave(req[p])
        /\ req[p].res = ErrSlugTaken
        /\ req[p].cleaned = "ok"
        /\ files # <<>>

\* an upload of a custom slug that was answered InvalidFormat or AlreadyTaken
SlugRejected(r) == r.pc = "done" /\ r.op = "upload" /\ r.res \in {ErrInvalidSlug, ErrSlugTaken}

\* C8 as stated: an upload whose custom slug is invalid or taken has written
\* no blob and inserted no record at any point.
C8_NothingWritten ==
    \A p \in Procs : SlugRejected(req[p]) => ~req[p].saved /\ NoRecordOf(req[p])

\* C8: an upload whose custom slug is invalid or taken has inserted no
\* record; its blob was written before the slug was looked at, and
\* storage.Delete was called on it before the error is returned.
C8_NoRecordBlobUndone ==
    \A p \in Procs :
        SlugRejected(req[p]) =>
            /\ NoRecordOf(req[p])
            /\ req[p].saved
            /\ req[p].cleaned # "no"
            /\ req[p].cleaned = "ok" => req[p].path \notin DOMAIN blobs

\* an upload has been answered InvalidFormat after its blob was written
C8_Witness ==
    \E p \in Procs :
        /\ SlugRejected(req[p])
        /\ req[p].res = ErrInvalidSlug
        /\ req[p].slug = Some(SlugAt)
        /\ req[p].saved

\* C28: the blob of an upload is saved in full before its record is inserted:
\* in every state of an upload in progress (the states a crash can leave
\* behind) the bytes are stored under its path and no record of the upload
\* exists, the record an upload has inserted has its bytes in storage, and an
\* upload whose Save failed or that returned an error has inserted no record.
C28_BlobBeforeRecord ==
    \A p \in Procs :
        LET r == req[p]
        IN  r.op = "upload" =>
              /\ r.pc # "done" =>
                    /\ NoRecordOf(r)
                    /\ r.saved
                    /\ r.path \in DOMAIN blobs
                    /\ blobs[r.path] = r.data
              /\ (r.pc = "done" /\ r.res = "ok") =>
                    /\ r.created = Len(files)
                    /\ files[r.created].FilePath = r.path
                    /\ r.path \in DOMAIN blobs
                    /\ blobs[r.path] = r.data
              /\ (r.pc = "done" /\ r.res # "ok") => NoRecordOf(r)

\* an upload is about to insert its record: its bytes are stored and no
\* record of it exists
C28_Witness ==
    \E p \in Procs :
        /\ req[p].op = "upload"
        /\ req[p].pc = "create"
        /\ req[p].path \in DOMAIN blobs
        /\ NoRecordOf(req[p])
        /\ Len(files) = 1

\* C10: validateSlug accepts the slug of every non-deleted record.
C10_StoredSlugsValid ==
    \A i \in Live(files) : validateSlug(files[i].Slug) = Nil

----------------------------------------------------------------------------
(* Claims on auto-generated slugs, under SpecDerive *)

\* lower case of a character
ToLower(c) == CASE c = "M" -> "m" [] c = "F" -> "f" [] OTHER -> c

RECURSIVE CollapseHyphens(_)
\* runs of hyphens become one hyphen
CollapseHyphens(s) ==
    IF Len(s) < 2 THEN s
    ELSE IF s[1] = "-" /\ s[2] = "-" THEN CollapseHyphens(Tail(s))
    ELSE <<s[1]>> \o CollapseHyphens(Tail(s))

RECURSIVE TrimHyphens(_)
\* leading and trailing hyphens go
TrimHyphens(s) ==
    IF s = <<>> THEN s
    ELSE IF Head(s) = "-" THEN TrimHyphens(Tail(s))
    ELSE IF s[Len(s)] = "-" THEN TrimHyphens(SubSeq(s, 1, Len(s) - 1))
    ELSE s

\* deriveFromName, steps 1 to 4 of the auto-generation contract: keepExt and
\* permissive are the design variants (the extension is kept or stripped;
\* the allowed set is lowercase, digit, hyphen, or the class of slugRegex)
deriveFromName(filename, keepExt, permissive) ==
    LET start == IF keepExt THEN filename ELSE TrimSuffix(filename, Ext(filename))
        lower == [i \in 1..Len(start) |->
                    IF start[i] \in {" ", "_"} THEN "-" ELSE ToLower(start[i])]
        allowed == IF permissive THEN SlugRegexClass
                   ELSE LowerChars \cup DigitChars \cup {"-"}
    IN  TrimHyphens(CollapseHyphens(SelectSeq(lower, LAMBDA c : c \in allowed)))

\* the base slugs of a file name, one per design variant
DerivedSlugs(filename) ==
    {deriveFromName(filename, k, pm) : k \in BOOLEAN, pm \in BOOLEAN}

\* a base followed by a hyphen and a random hex suffix, before the extension
Suffixed(base) ==
    {SprintfDash(TrimSuffix(base, Ext(base)), h, Ext(base)) : h \in RandomSuffixes}

\* C11: an upload without a custom slug stores the slug derived from the
\* file name (lower-cased, spaces and underscores to hyphens, disallowed
\* characters stripped, hyphens collapsed and trimmed) when that is free, and
\* that base with a hyphen and a random hex suffix when it is taken.
C11_AutoSlugDerived ==
    \A p \in Procs :
        (req[p].pc = "done" /\ req[p].op = "upload" /\ req[p].res = "ok"
            /\ ~IsSet(req[p].slug)) =>
            LET slug == files[req[p].created].Slug
                others == {files[i].Slug : i \in Live(files) \ {req[p].created}}
            IN  \E d \in DerivedSlugs(req[p].name) :
                    IF d \in others THEN slug \in Suffixed(d) ELSE slug = d

\* C13: no two non-deleted records share a stored name (Filename), whatever
\* the random generator returns.
C13_FilenameUnique ==
    \A i \in Live(files), j \in Live(files) :
        i # j => files[i].Filename # files[j].Filename

----------------------------------------------------------------------------
(* Claims on updates, under SpecUpdate *)

----------------------------------------------------------------------------
(* The storage backends on their own: LocalStorage and S3Storage *)

Backends == {"local", "s3"}

\* the file names handed to Save
StoredNames == {rid \o Ext(NameAP) : rid \in RandomIDs}

\* the path or key that Save returns: filepath.Join(dataDir, filename) for
\* LocalStorage, the file name itself for S3Storage
SavedKey(backend, filename) == IF backend = "local" THEN LocalPath(filename) ELSE filename

\* os.Remove(path): ENOENT when there is no such file, EACCES when the
\* operating system refuses
osRemove(b, path, refused) ==
    IF refused THEN [err |-> "EACCES", blobs |-> b]
    ELSE IF path \in DOMAIN b THEN [err |-> Nil, blobs |-> Remove(b, path)]
    ELSE [err |-> "ENOENT", blobs |-> b]

\* a slip in LocalStorage.Delete: a missing file is reported
LocalDeleteStrict(b, path, refused) ==
    LET r == osRemove(b, path, refused)
    IN  [err |-> IF r.err # Nil THEN "IOError" ELSE Nil, blobs |-> r.blobs]

\* LocalStorage.Delete: err != nil && !os.IsNotExist(err) is an error
LocalDelete(b, path, refused) ==
    LET r == osRemove(b, path, refused)
    IN  [err |-> IF r.err # Nil /\ r.err # "ENOENT" THEN "IOError" ELSE Nil,
         blobs |-> r.blobs]

\* S3Storage.Delete: DeleteObject succeeds whether or not the key exists; a
\* failed request is an error
S3Delete(b, key, refused) ==
    IF refused THEN [err |-> "IOError", blobs |-> b]
    ELSE [err |-> Nil, blobs |-> Remove(b, key)]

StorageDeleteOf(backend, b, key, refused) ==
    IF backend = "local" THEN LocalDelete(b, key, refused) ELSE S3Delete(b, key, refused)

\* the call that is made: the backend, the operation, its key, the call
\* before it and the number of calls so far
Call(backend, op, key, prev, n) ==
    [backend |-> backend, op |-> op, key |-> key, prev |-> prev, n |-> n]

NextCall(op, key) == Call(input.backend, op, key, <<input.op, input.key>>, input.n + 1)

\* initializeStorage: the backend is chosen once, at startup
InitStorage ==
    /\ files = <<>>
    /\ blobs = NoBlobs
    /\ now = 0
    /\ req = [p \in Procs |-> IdleReq]
    /\ sweep = IdleSweep
    /\ faults = 0
    /\ \E b \in Backends : input = Call(b, "none", <<>>, <<>>, 0)
    /\ output = "unset"

\* Storage.Save
StorageSave ==
    /\ input.n < MaxCalls
    /\ \E f \in StoredNames, d \in {<<1, 0>>, <<1, 1>>} :
        LET k == SavedKey(input.backend, f)
        IN  /\ blobs' = Put(blobs, k, d)
            /\ input' = NextCall("save", k)
            /\ output' = Nil
    /\ UNCHANGED <<files, now, req, sweep, faults>>

\* Storage.Delete
StorageDelete ==
    /\ input.n < MaxCalls
    /\ \E f \in StoredNames :
        LET k == SavedKey(input.backend, f)
            r == StorageDeleteOf(input.backend, blobs, k, FALSE)
        IN  /\ blobs' = r.blobs
            /\ input' = NextCall("delete", k)
            /\ output' = r.err
    /\ UNCHANGED <<files, now, req, sweep, faults>>

\* Storage.Delete while the file system or the object store refuses
StorageDeleteFails ==
    /\ input.n < MaxCalls
    /\ FaultAllowed
    /\ \E f \in StoredNames :
        LET k == SavedKey(input.backend, f)
            r == StorageDeleteOf(input.backend, blobs, k, TRUE)
        IN  /\ blobs' = r.blobs
            /\ input' = NextCall("delete", k)
            /\ output' = r.err
    /\ faults' = faults + 1
    /\ UNCHANGED <<files, now, req, sweep>>

\* Storage.Exists
StorageExists ==
    /\ input.n < MaxCalls
    /\ \E f \in StoredNames :
        LET k == SavedKey(input.backend, f)
        IN  /\ input' = NextCall("exists", k)
            /\ output' = (k \in DOMAIN blobs)
    /\ UNCHANGED <<files, blobs, now, req, sweep, faults>>

NextStorage == StorageSave \/ StorageDelete \/ StorageDeleteFails \/ StorageExists

SpecStorage == InitStorage /\ [][NextStorage]_vars

\* C19: Storage Delete of an absent key returns ok and changes nothing, so
\* a Delete that follows a Delete of the same key returns ok; this holds for
\* LocalStorage and for S3Storage, as long as the file system or the object
\* store does not refuse the call.
C19_DeleteIdempotent ==
    [][(input'.op = "delete" /\ input'.n # input.n /\ faults' = faults) =>
        /\ input'.key \notin DOMAIN blobs'
        /\ input'.key \notin DOMAIN blobs => output' = Nil /\ blobs' = blobs
        /\ (input.op = "delete" /\ input.key = input'.key /\ output = Nil) =>
                output' = Nil]_vars

\* a backend has answered ok to a second Delete of the same key
C19_Witness ==
    /\ input.op = "delete"
    /\ input.prev = <<"delete", input.key>>
    /\ input.n = MaxCalls
    /\ output = Nil
    /\ faults = 0

----------------------------------------------------------------------------
(* The two storage backends side by side: the same calls are made to a      *)
(* LocalStorage and to an S3Storage. The paths of the one (data/<name>) and *)
(* the keys of the other (<name>) never coincide, so blobs holds both.      *)

\* LocalStorage.Get: os.Open; a missing file is "file not found", and the
\* reader gives the bytes of the file
LocalGet(b, path) ==
    IF path \in DOMAIN b THEN [err |-> Nil, bytes |-> b[path]]
    ELSE [err |-> "NotFound", bytes |-> <<>>]

\* S3Storage.Get: GetObject; for a missing key the request fails with
\* NoSuchKey, which Get wraps
S3Get(b, key) ==
    IF key \in DOMAIN b THEN [err |-> Nil, bytes |-> b[key]]
    ELSE [err |-> "NotFound", bytes |-> <<>>]

\* LocalStorage.Exists: os.Stat; an error other than "does not exist" is
\* returned with false
LocalExists(b, path, refused) ==
    IF refused THEN [found |-> FALSE, err |-> "IOError"]
    ELSE [found |-> path \in DOMAIN b, err |-> Nil]

\* S3Storage.Exists: HeadObject; any error is (false, nil)
S3Exists(b, key, refused) ==
    IF refused THEN [found |-> FALSE, err |-> Nil]
    ELSE [found |-> key \in DOMAIN b, err |-> Nil]

\* the call made to both backends: the operation, the file name it is about
\* and the number of calls so far
PairCall(op, filename) == [op |-> op, name |-> filename, n |-> input.n + 1]

InitPair ==
    /\ files = <<>>
    /\ blobs = NoBlobs
    /\ now = 0
    /\ req = [p \in Procs |-> IdleReq]
    /\ sweep = IdleSweep
    /\ faults = 0
    /\ input = [op |-> "none", name |-> <<>>, n |-> 0]
    /\ output = <<Nil, Nil>>

\* Save on both: os.Create truncates a file of that name, PutObject replaces
\* an object of that key
PairSave ==
    /\ input.n < MaxCalls
    /\ \E f \in StoredNames, d \in {<<1, 0>>, <<1, 1>>} :
        /\ blobs' = Put(Put(blobs, SavedKey("local", f), d), SavedKey("s3", f), d)
        /\ input' = PairCall("save", f)
        /\ output' = <<[err |-> Nil], [err |-> Nil]>>
    /\ UNCHANGED <<files, now, req, sweep, faults>>

\* Save fails on both: LocalStorage either could not create the file or
\* removes it after a failed copy; a failed PutObject leaves the bucket as it
\* was
PairSaveFails ==
    /\ input.n < MaxCalls
    /\ FaultAllowed
    /\ \E f \in StoredNames :
        /\ blobs' \in {blobs, Remove(blobs, SavedKey("local", f))}
        /\ input' = PairCall("save", f)
        /\ output' = <<[err |-> "IOError"], [err |-> "IOError"]>>
    /\ faults' = faults + 1
    /\ UNCHANGED <<files, now, req, sweep>>

\* Get on both
PairGet ==
    /\ input.n < MaxCalls
    /\ \E f \in StoredNames :
        /\ input' = PairCall("get", f)
        /\ output' = <<LocalGet(blobs, SavedKey("local", f)), S3Get(blobs, SavedKey("s3", f))>>
    /\ UNCHANGED <<files, blobs, now, req, sweep, faults>>

\* Delete on both
PairDelete ==
    /\ input.n < MaxCalls
    /\ \E f \in StoredNames :
        LET l == LocalDelete(blobs, SavedKey("local", f), FALSE)
            s == S3Delete(l.blobs, SavedKey("s3", f), FALSE)
        IN  /\ blobs' = s.blobs
            /\ input' = PairCall("delete", f)
            /\ output' = <<[err |-> l.err], [err |-> s.err]>>
    /\ UNCHANGED <<files, now, req, sweep, faults>>

\* Exists on both
PairExists ==
    /\ input.n < MaxCalls
    /\ \E f \in StoredNames :
        /\ input' = PairCall("exists", f)
        /\ output' = <<LocalExists(blobs, SavedKey("local", f), FALSE),
                       S3Exists(blobs, SavedKey("s3", f), FALSE)>>
    /\ UNCHANGED <<files, blobs, now, req, sweep, faults>>

\* Exists on both while the probe itself fails: os.Stat is refused
\* (permission), HeadObject does not get through (transport, credentials)
PairExistsFails ==
    /\ input.n < MaxCalls
    /\ FaultAllowed
    /\ \E f \in StoredNames :
        /\ input' = PairCall("exists", f)
        /\ output' = <<LocalExists(blobs, SavedKey("local", f), TRUE),
                       S3Exists(blobs, SavedKey("s3", f), TRUE)>>
    /\ faults' = faults + 1
    /\ UNCHANGED <<files, blobs, now, req, sweep>>

NextPair ==
    \/ PairSave
    \/ PairSaveFails
    \/ PairGet
    \/ PairDelete
    \/ PairExists
    \/ PairExistsFails

SpecPair == InitPair /\ [][NextPair]_vars

\* C26: LocalStorage and S3Storage give the same outcome (success, not
\* found or error, the same bytes, the same answer of Exists) to every call
\* of every sequence of Save, Get, Delete and Exists calls.
C26_BackendsEquivalent == output[1] = output[2]

----------------------------------------------------------------------------
(* Claims on the retry loop, under SpecExhaust *)

GenerationFailed == "GenerationFailed"

\* an upload that has returned the generation failure
Exhausted(r) == r.pc = "done" /\ r.op = "upload" /\ r.res = GenerationFailed

\* the loop makes at most 100 attempts, and a successful upload holds a slug
\* that no other live record holds
BoundedAttempts ==
    \A p \in Procs :
        /\ req[p].pc = "retry" => req[p].i < 100
        /\ (req[p].pc = "done" /\ req[p].op = "upload" /\ req[p].res = "ok") =>
              \A i \in Live(files) \ {req[p].created} :
                  files[i].Slug # files[req[p].created].Slug

\* C12 as stated: when all attempts collide the upload returns the
\* generation failure, has created no record and its blob is gone.
C12_ExhaustedBlobGone ==
    \A p \in Procs :
        Exhausted(req[p]) => NoRecordOf(req[p]) /\ req[p].path \notin DOMAIN blobs

\* C12: auto-generation always terminates: at most 100 suffixed attempts,
\* then the generation failure and never a substituted slug; the failed
\* upload has created no record and has called storage.Delete on its blob,
\* which is gone unless that call failed.
C12_RetryTerminates ==
    /\ [](BoundedAttempts /\
          \A p \in Procs :
              Exhausted(req[p]) =>
                  /\ NoRecordOf(req[p])
                  /\ req[p].cleaned # "no"
                  /\ req[p].cleaned = "ok" => req[p].path \notin DOMAIN blobs)
    /\ \A p \in Procs : (req[p].pc = "retry") ~> (req[p].pc = "done")

\* an upload has run out of attempts and its blob is deleted
C12_Witness ==
    \E p \in Procs :
        /\ Exhausted(req[p])
        /\ req[p].cleaned = "ok"
        /\ req[p].path \notin DOMAIN blobs
        /\ Len(files) = 2

----------------------------------------------------------------------------
(* validateSlug on its own *)

\* the README's examples
MyFile == <<"M", "y", "_", "F", "i", "l", "e">>
Report2024At == <<"r", "e", "p", "o", "r", "t", "@", "2", "0", "2", "4">>
Report2024 == <<"r", "e", "p", "o", "r", "t", "-", "2", "0", "2", "4">>

ProbeChars == {"a", "M", "2", "-", "_", ".", "@", " ", "é"}

\* every string of up to ProbeLen characters, strings around the length limit,
\* and the README's examples
SlugCandidates ==
    UNION {[1..n -> ProbeChars] : n \in 0..ProbeLen}
    \cup {Rep(c, n) : c \in {"a", "é", "@"}, n \in {49, 50, 51, 99, 100, 101}}
    \cup {MyFile, Report2024At, Report2024}

InitValidate ==
    /\ files = <<>>
    /\ blobs = NoBlobs
    /\ now = 0
    /\ req = [p \in Procs |-> IdleReq]
    /\ sweep = IdleSweep
    /\ faults = 0
    /\ input \in SlugCandidates
    /\ output = "unset"

Validate ==
    /\ output = "unset"
    /\ output' = validateSlug(input)
    /\ UNCHANGED <<files, blobs, now, req, sweep, faults, input>>

SpecValidate == InitValidate /\ [][Validate]_vars

\* the format the README and the handlers' error message state: 1 to 100
\* characters, each a lowercase letter, a digit or a hyphen
StrictSlug(s) ==
    /\ Len(s) >= 1
    /\ Len(s) <= 100
    /\ \A i \in 1..Len(s) : s[i] \in LowerChars \cup DigitChars \cup {"-"}

\* C9: validateSlug accepts a candidate exactly when it has 1 to 100
\* characters, all of them lowercase letters, digits or hyphens.
C9_ValidateSlugStrict ==
    output # "unset" => (output = Nil <=> StrictSlug(input))

----------------------------------------------------------------------------
(* Claims on updates of the expiry, under SpecPast *)

\* C33: whenever UpdateFile returns an error, the record's expiresAt,
\* passwordHash and slug are what they were before the call, also when the
\* expiresAt supplied is in the past.  req[p].file is the record GetFile gave
\* at the start of the call.
C33_UpdateAllOrNothing ==
    [][\A p \in Procs :
        (/\ req'[p].op = "update"
         /\ req'[p].pc = "done"
         /\ req[p].pc # "done"
         /\ req'[p].res # "ok")
        => IF req[p].pc \in {"upd_check", "upd_write", "upd_reload"}
           THEN LET was == req[p].file[1]
                    is == files'[req[p].id]
                IN  /\ is.ExpiresAt = was.ExpiresAt
                    /\ is.PasswordHash = was.PasswordHash
                    /\ is.Slug = was.Slug
           ELSE files' = files]_vars

----------------------------------------------------------------------------
(* Claims on the instant of expiry, under Spec *)

\* C34: at every instant, now = expiresAt included, a record that is not
\* deleted is in the result of ListFiles exactly when GetFile on its id at
\* that instant returns the record.
C34_ListAgreesWithGet ==
    [][\A p \in Procs :
        (req'[p].op = "list" /\ req[p].op # "list")
        => \A i \in Live(files) :
            (\E j \in 1..Len(req'[p].list) : req'[p].list[j].ID = files[i].ID)
            <=> GetFile(files, files[i].ID, now).err = Nil]_vars

\* C35: at the instant CleanupExpiredFiles selects a record, now = expiresAt
\* included, GetFile on that record returns ErrFileExpired: the sweep purges
\* no file that is still accessible.
C35_SweepOnlyExpired ==
    [][(sweep.pc = "idle" /\ sweep'.pc # "idle")
        => \A j \in 1..Len(sweep'.list) :
            GetFile(files, sweep'.list[j].ID, now).err = ErrFileExpired]_vars

\* C38: when the storage delete fails inside DeleteFile, DeleteFile returns
\* an error and the call has neither deleted the record nor changed a field
\* of it; when the storage
\* delete fails inside CleanupExpiredFiles, the sweep goes on to the record
\* delete of the same record, which soft-deletes it.
C38_FailedBlobDelete ==
    [][/\ \A p \in Procs :
            (req[p].pc = "del_blob" /\ req'[p] # req[p] /\ faults' # faults)
            => /\ req'[p].pc = "done"
               /\ req'[p].res \notin {"ok", Nil}
               /\ files' = files
       /\ (sweep.pc = "blob" /\ sweep' # sweep /\ faults' # faults)
            => /\ sweep' = [sweep EXCEPT !.pc = "row"]
               /\ files' = files
       /\ (sweep.pc = "row" /\ sweep' # sweep /\ faults' = faults)
            => sweep.list[sweep.k].ID \notin Live(files')]_vars

\* the sweep has soft-deleted the only record although the delete of its blob
\* failed: the blob is still in storage
C38_Witness ==
    /\ Len(files) = 1
    /\ files[1].DeletedAt # 0
    /\ files[1].FilePath \in DOMAIN blobs
    /\ faults = 1
    /\ sweep.pc = "idle"

\* no request is being served and the cleanup job is not running
Quiescent ==
    /\ \A p \in Procs : req[p].pc = "idle"
    /\ sweep.pc = "idle"

\* C37: without a fault of the storage or of the record store, in every state
\* where no operation is in flight each blob in storage is the storage key
\* of exactly one non-deleted record.
C37_NoOrphanBlobs ==
    (Quiescent /\ faults = 0)
    => \A k \in DOMAIN blobs :
        Cardinality({i \in Live(files) : files[i].FilePath = k}) = 1

\* the storage keys that non-deleted records reference
Referenced == {files[i].FilePath : i \in Live(files)}

\* C39: whatever name generateUniqueFilename returns, the storage Save of an
\* upload and its compensating storage Delete act on a key that no
\* non-deleted record references: an upload neither overwrites nor deletes
\* the blob of another record.
C39_UploadSparesOtherBlobs ==
    [][\A p \in Procs :
        /\ (req[p].pc = "idle" /\ req'[p].op = "upload" /\ req'[p].saved)
            => req'[p].path \notin Referenced
        /\ (req[p].pc = "cleanup" /\ req'[p] # req[p] /\ req'[p].cleaned = "ok")
            => req[p].path \notin Referenced]_vars

----------------------------------------------------------------------------
(* Claims on expiry with two clients, under SpecLapse *)

\* C36: once a lookup of a record has returned ErrFileExpired, no update,
\* delete, upload or sweep makes a later lookup of that record succeed: while
\* the response of such a lookup is being written, GetFile on the same id
\* does not return the record.
C36_ExpiryIrreversible ==
    \A q \in Procs :
        (req[q].op = "get" /\ req[q].pc = "done" /\ req[q].res = ErrFileExpired)
        => GetFile(files, req[q].id, now).err # Nil

====
